---------------------------- MODULE Spec2Model ----------------------------
(***************************************************************************)
(* Key-fob check-in / check-out logging: the credential store (db.py,      *)
(* models.py, services.py), the authorization engine of the CLI            *)
(* (engine.py) and the tap handler of the desktop front end (ui_main.py).  *)
(*                                                                         *)
(* Time is counted in ticks of 1/TicksPerSecond second.  datetime.now()    *)
(* keeps the sub-second part, the SQLite timestamps are whole seconds.     *)
(* A credential (uuid4 hex string) is modelled by the number of the        *)
(* uuid4() call that produced it; 0 stands for any text that was never a   *)
(* credential (blank or foreign tag).  Python's None is the value None.    *)
(***************************************************************************)
EXTENDS Integers, Sequences, FiniteSets, TLC

\* ------------------------------------------------------------------ bounds
MaxLogs == 2
MaxInstants == 3
TicksPerSecond == 2

\* --------------------------------------------------------------- constants
None == -1

Seconds(n) == n * TicksPerSecond

CHECKOUT_WINDOW == Seconds(20)

CHECKIN_MIN_AGE == Seconds(2 * 60)

UI_CHECKOUT_WINDOW == Seconds(20)

UI_CHECKIN_MIN_AGE == Seconds(2 * 60)

\* the physical tags at hand, by uid
Uids == {0, 1, 2}

\* the results of the uuid4() calls, in the order of the calls
Creds == {1, 2, 3}

\* what a tag can hold: a credential, or something else
Texts == {0} \cup Creds

Engines == {"engine", "other"}

MainEngine == "engine"

TagTypes == {"emp", "key"}

Labels == {"name"}

\* the instants at which something happens: every multiple of the cooldown,
\* and one checkout window after it
Instants ==
    {(i \div 2) * CHECKIN_MIN_AGE + (i % 2) * CHECKOUT_WINDOW : i \in 0..MaxInstants}

VARIABLES
    mode,                       \* "cli": Engine.process_card, "ui": MainWindow._process_tag
    utc_offset,                 \* the host's time zone: local time minus UTC, in ticks
    registered_tags,            \* table registered_tags: uid -> row
    uuid_to_encrypted_content,  \* table uuid_to_encrypted_content: uuid -> blob
    logs,                       \* table logs, in rowid order
    state,                      \* SessionState of every engine
    clock,                      \* wall clock, in ticks
    uuid_next,                  \* number of the next uuid4() result
    pc,                         \* position of every engine
    call,                       \* locals of the call an engine is in
    outcome                     \* what every engine reported last

vars == <<mode, utc_offset, registered_tags, uuid_to_encrypted_content, logs, state,
          clock, uuid_next, pc, call, outcome>>

store == <<registered_tags, uuid_to_encrypted_content, logs>>

\* ------------------------------------------------------------------- time
\* datetime('now','localtime') and CURRENT_TIMESTAMP have whole seconds
TruncSeconds(t) == (t \div TicksPerSecond) * TicksPerSecond

\* logs.checkOutTime DEFAULT (datetime('now','localtime'))
localtime_now(t) == TruncSeconds(t)

\* SQLite's CURRENT_TIMESTAMP at local time t: the UTC date and time.  The
\* clock counts local time from the start of the run, so that a UTC value of
\* a host east of Greenwich can be negative; it is a whole second, never None.
CURRENT_TIMESTAMP(t) == TruncSeconds(t - utc_offset)

\* ------------------------------------------------------------ SessionState
SessionState(uid, exp) == [active_employee_card_id |-> uid, window_expires_at |-> exp]

Idle == SessionState(None, None)

\* ------------------------------------------------------------ Label cipher
\* In the specifications of the taps a blob is kept as the label it seals;
\* the cipher itself is Crypto_encrypt_name and Crypto_decrypt_name below.
encrypt_name(name) == [pt |-> name]

\* ------------------------------------------------------------- models.py
\* verify_tag_content without the comparison of the content
verify_tag_content_uid_only(tags, blobs, uid, expected_content) ==
    /\ uid \in DOMAIN tags
    /\ tags[uid].active
    /\ tags[uid].text_uuid \in DOMAIN blobs

\* verify_tag_content without the EXISTS sub-select
verify_tag_content_no_label(tags, blobs, uid, expected_content) ==
    /\ uid \in DOMAIN tags
    /\ tags[uid].active
    /\ tags[uid].text_uuid = expected_content

verify_tag_content(tags, blobs, uid, expected_content) ==
    /\ uid \in DOMAIN tags
    /\ tags[uid].active
    /\ tags[uid].text_uuid = expected_content
    /\ tags[uid].text_uuid \in DOMAIN blobs

\* get_tag_info returning every row found as active
get_tag_info_always_active(tags, uid) ==
    IF uid \in DOMAIN tags
    THEN [type |-> tags[uid].type, active |-> TRUE]
    ELSE [type |-> "none", active |-> FALSE]

get_tag_info(tags, uid) ==
    IF uid \in DOMAIN tags
    THEN [type |-> tags[uid].type, active |-> tags[uid].active]
    ELSE [type |-> "none", active |-> FALSE]

\* UPDATE registered_tags SET active = NOT active
activate_tag_toggle(tags, uid) ==
    IF uid \in DOMAIN tags
    THEN [tags EXCEPT ![uid].active = ~tags[uid].active]
    ELSE tags

activate_tag(tags, uid) ==
    IF uid \in DOMAIN tags
    THEN [tags EXCEPT ![uid].active = TRUE]
    ELSE tags

set_tag_active(tags, uid, active) ==
    IF uid \in DOMAIN tags
    THEN [tags EXCEPT ![uid].active = active]
    ELSE tags

\* INSERT ... ON CONFLICT(uid) DO UPDATE SET text_uuid only
register_tags_upsert_keeps_type(tags, uid, tag_type, text_uuid) ==
    IF uid \in DOMAIN tags
    THEN [tags EXCEPT ![uid].text_uuid = text_uuid]
    ELSE [u \in DOMAIN tags \cup {uid} |->
            IF u = uid
            THEN [text_uuid |-> text_uuid, type |-> tag_type, active |-> TRUE]
            ELSE tags[u]]

\* INSERT ... ON CONFLICT(uid) DO UPDATE SET text_uuid, type (active keeps its value)
register_tags_upsert(tags, uid, tag_type, text_uuid) ==
    IF uid \in DOMAIN tags
    THEN [tags EXCEPT ![uid].text_uuid = text_uuid, ![uid].type = tag_type]
    ELSE [u \in DOMAIN tags \cup {uid} |->
            IF u = uid
            THEN [text_uuid |-> text_uuid, type |-> tag_type, active |-> TRUE]
            ELSE tags[u]]

\* INSERT ... ON CONFLICT(uuid) DO UPDATE SET encrypted_content
register_blob_insert_replace(blobs, text_uuid, encrypted_content) ==
    [c \in DOMAIN blobs \cup {text_uuid} |->
        IF c = text_uuid THEN encrypted_content ELSE blobs[c]]

\* register_or_overwrite_tag without its second statement
register_blob_insert_skipped(blobs, text_uuid, encrypted_content) ==
    blobs

\* INSERT ... ON CONFLICT(uuid) DO NOTHING
register_blob_insert(blobs, text_uuid, encrypted_content) ==
    IF text_uuid \in DOMAIN blobs
    THEN blobs
    ELSE [c \in DOMAIN blobs \cup {text_uuid} |->
            IF c = text_uuid THEN encrypted_content ELSE blobs[c]]

LogIds(l) == 1..Len(l)

\* the WHERE clause with its two parameters bound in the wrong order
MatchingRows_swapped(l, uid, text_uuid) ==
    {i \in LogIds(l) : l[i].tag_uid = text_uuid /\ l[i].text_uuid = uid}

MatchingRows(l, uid, text_uuid) ==
    {i \in LogIds(l) : l[i].tag_uid = uid /\ l[i].text_uuid = text_uuid}

OpenRows(l, uid, text_uuid) ==
    {i \in MatchingRows(l, uid, text_uuid) : l[i].checkInTime = None}

\* ORDER BY checkOutTime ASC LIMIT 1
LatestByCheckOut_ascending(l, rows) ==
    {i \in rows : \A j \in rows : l[i].checkOutTime <= l[j].checkOutTime}

\* the rows ORDER BY checkOutTime DESC LIMIT 1 may return: SQL leaves the
\* order of rows with equal checkOutTime open
LatestByCheckOut(l, rows) ==
    {i \in rows : \A j \in rows : l[j].checkOutTime <= l[i].checkOutTime}

\* the set of results get_key_log_times may return
get_key_log_times(l, uid, text_uuid) ==
    IF MatchingRows(l, uid, text_uuid) = {}
    THEN {<<None, None>>}
    ELSE {<<l[i].checkOutTime, l[i].checkInTime>> :
            i \in LatestByCheckOut(l, MatchingRows(l, uid, text_uuid))}

\* check_in_key, the SELECT: the ids it may find ({} when it raises)
check_in_key_select(l, uid, text_uuid) ==
    LatestByCheckOut(l, OpenRows(l, uid, text_uuid))

\* the UPDATE of check_in_key moving the checkout time into checkInTime
check_in_key_update_moves(l, log_id, t) ==
    [l EXCEPT ![log_id].checkInTime = l[log_id].checkOutTime,
              ![log_id].checkOutTime = None]

\* check_in_key, the UPDATE
check_in_key_update(l, log_id, t) ==
    [l EXCEPT ![log_id].checkInTime = CURRENT_TIMESTAMP(t)]

\* the SELECT of check_out_key testing checkInTime IS NOT NULL
check_out_key_exists_inverted(l, uid, text_uuid) ==
    MatchingRows(l, uid, text_uuid) \ OpenRows(l, uid, text_uuid) # {}

\* check_out_key, the SELECT: TRUE when it raises "already checked out"
check_out_key_exists(l, uid, text_uuid) ==
    OpenRows(l, uid, text_uuid) # {}

\* the INSERT of check_out_key as an INSERT OR REPLACE keyed by the pair: the
\* latest row of the pair is overwritten
check_out_key_insert_or_replace(l, tags, uid, text_uuid, employee_uid, t) ==
    LET row(id) == [id |-> id,
                    tag_uid |-> uid,
                    text_uuid |-> text_uuid,
                    employee_text_uuid |->
                        IF employee_uid \in DOMAIN tags
                        THEN tags[employee_uid].text_uuid ELSE None,
                    checkOutTime |-> localtime_now(t),
                    checkInTime |-> None]
    IN  IF MatchingRows(l, uid, text_uuid) = {}
        THEN Append(l, row(Len(l) + 1))
        ELSE LET id == CHOOSE i \in MatchingRows(l, uid, text_uuid) :
                          \A k \in MatchingRows(l, uid, text_uuid) : k <= i
             IN  [l EXCEPT ![id] = row(id)]

\* the INSERT of check_out_key storing the employee's uid, without the
\* sub-select on registered_tags
check_out_key_insert_employee_uid(l, tags, uid, text_uuid, employee_uid, t) ==
    Append(l, [id |-> Len(l) + 1,
               tag_uid |-> uid,
               text_uuid |-> text_uuid,
               employee_text_uuid |-> employee_uid,
               checkOutTime |-> localtime_now(t),
               checkInTime |-> None])

\* the INSERT of check_out_key made conditional on there being no open row
check_out_key_insert_if_absent(l, tags, uid, text_uuid, employee_uid, t) ==
    IF OpenRows(l, uid, text_uuid) # {}
    THEN l
    ELSE Append(l, [id |-> Len(l) + 1,
                    tag_uid |-> uid,
                    text_uuid |-> text_uuid,
                    employee_text_uuid |->
                        IF employee_uid \in DOMAIN tags
                        THEN tags[employee_uid].text_uuid ELSE None,
                    checkOutTime |-> localtime_now(t),
                    checkInTime |-> None])

\* the INSERT of check_out_key with the key's uid bound to the sub-select
check_out_key_insert_key_as_employee(l, tags, uid, text_uuid, employee_uid, t) ==
    Append(l, [id |-> Len(l) + 1,
               tag_uid |-> uid,
               text_uuid |-> text_uuid,
               employee_text_uuid |->
                   IF uid \in DOMAIN tags THEN tags[uid].text_uuid ELSE None,
               checkOutTime |-> localtime_now(t),
               checkInTime |-> None])

\* check_out_key, the INSERT
check_out_key_insert(l, tags, uid, text_uuid, employee_uid, t) ==
    Append(l, [id |-> Len(l) + 1,
               tag_uid |-> uid,
               text_uuid |-> text_uuid,
               employee_text_uuid |->
                   IF employee_uid \in DOMAIN tags
                   THEN tags[employee_uid].text_uuid ELSE None,
               checkOutTime |-> localtime_now(t),
               checkInTime |-> None])


\* ------------------------------------------------------- reported outcomes
\* kind: the tap classification result; wait: the remaining cooldown, in
\* ticks; reg: the registration outcome
Report(kind) == [kind |-> kind, wait |-> 0, reg |-> "none"]

ReportWait(ticks) == [kind |-> "checkin_wait", wait |-> ticks, reg |-> "none"]

ReportReg(kind, reg) == [kind |-> kind, wait |-> 0, reg |-> reg]

NoCall == [uid |-> None, text |-> None, employee_uid |-> None, log_id |-> None,
           content |-> {}]

\* -------------------------------------------------------------- engine.py
\* engine.py line 142 / ui_main.py line 531: the key is in the office
KeyAvailable(check_out, check_in) ==
    \/ (check_out = None /\ check_in = None)
    \/ (check_in # None /\ check_out # None)

\* engine.py line 167 / ui_main.py line 559: the key is checked out
KeyCheckedOut(check_out, check_in) ==
    check_out # None /\ check_in = None

\* the session test without the comparison to window_expires_at
NoActiveEmployee_no_expiry(st, now) ==
    \/ st.active_employee_card_id = None
    \/ st.window_expires_at = None

\* engine.py lines 144-147
NoActiveEmployee(st, now) ==
    \/ st.active_employee_card_id = None
    \/ st.window_expires_at = None
    \/ now > st.window_expires_at

\* the cooldown test with the checkout window in place of the minimum age
TooSoon_window(check_out, now) ==
    check_out + CHECKOUT_WINDOW > now

\* the cooldown test with >= in place of >
TooSoon_inclusive(check_out, now) ==
    check_out + CHECKIN_MIN_AGE >= now

\* engine.py line 170
TooSoon(check_out, now) ==
    check_out + CHECKIN_MIN_AGE > now

\* engine.py line 172: total_seconds() of the remaining time
RemainingWait(check_out, now) ==
    check_out + CHECKIN_MIN_AGE - now

\* process_emp_tag cancelling by clearing the uid only
process_emp_tag_keeps_window(st, uid, now) ==
    IF /\ st.active_employee_card_id = uid
       /\ st.window_expires_at # None
       /\ now <= st.window_expires_at
    THEN [state |-> SessionState(None, st.window_expires_at),
          outcome |-> Report("session_cancelled")]
    ELSE [state |-> SessionState(uid, now + CHECKOUT_WINDOW),
          outcome |-> Report("employee_armed")]

\* process_emp_tag cancelling on every second tap, expired or not
process_emp_tag_no_expiry(st, uid, now) ==
    IF st.active_employee_card_id = uid
    THEN [state |-> Idle, outcome |-> Report("session_cancelled")]
    ELSE [state |-> SessionState(uid, now + CHECKOUT_WINDOW),
          outcome |-> Report("employee_armed")]

\* Engine.process_emp_tag: the new session and the report
process_emp_tag(st, uid, now) ==
    IF /\ st.active_employee_card_id = uid
       /\ st.window_expires_at # None
       /\ now <= st.window_expires_at
    THEN [state |-> Idle, outcome |-> Report("session_cancelled")]
    ELSE [state |-> SessionState(uid, now + CHECKOUT_WINDOW),
          outcome |-> Report("employee_armed")]

\* Engine.process_key_tag, every statement of it in one step: the set of
\* results (ledger, session, report, whether the ValueError of check_in_key
\* escapes) it can end in
process_key_tag(l, tags, st, uid, text, now, dbnow) ==
    UNION {
      LET check_out == times[1]
          check_in == times[2]
          same(kind) == {[logs |-> l, state |-> st, outcome |-> kind, raised |-> FALSE]}
      IN
      IF KeyAvailable(check_out, check_in)
      THEN IF NoActiveEmployee(st, now)
           THEN {[logs |-> l, state |-> Idle,
                  outcome |-> Report("no_active_employee"), raised |-> FALSE]}
           ELSE IF check_out_key_exists(l, uid, text)
                THEN same(Report("already_out"))
                ELSE {[logs |-> check_out_key_insert(l, tags, uid, text,
                                   st.active_employee_card_id, dbnow),
                       state |-> st,
                       outcome |-> Report("checked_out"), raised |-> FALSE]}
      ELSE IF KeyCheckedOut(check_out, check_in)
           THEN IF TooSoon(check_out, now)
                THEN same(ReportWait(RemainingWait(check_out, now)))
                ELSE IF check_in_key_select(l, uid, text) = {}
                     THEN {[logs |-> l, state |-> st,
                            outcome |-> Report("exception"), raised |-> TRUE]}
                     ELSE {[logs |-> check_in_key_update(l, log_id, dbnow),
                            state |-> st,
                            outcome |-> Report("checked_in"), raised |-> FALSE] :
                              log_id \in check_in_key_select(l, uid, text)}
           ELSE same(Report("inconsistent"))
      : times \in get_key_log_times(l, uid, text) }

\* ------------------------------------------------------------- ui_main.py
\* the session test of the UI without the comparison to window_expires_at
UiNoActiveEmployee_no_expiry(st, now) ==
    \/ st.active_employee_card_id = None
    \/ st.active_employee_card_id = 0
    \/ st.window_expires_at = None

\* ui_main.py lines 533-537: None and 0 are both falsy
UiNoActiveEmployee(st, now) ==
    \/ st.active_employee_card_id = None
    \/ st.active_employee_card_id = 0
    \/ st.window_expires_at = None
    \/ now > st.window_expires_at

\* ui_main.py line 560
UiTooSoon(check_out, now) ==
    check_out + UI_CHECKIN_MIN_AGE > now

\* ui_main.py line 561: int(total_seconds()) drops the fraction
UiRemainingWait(check_out, now) ==
    TruncSeconds(check_out + UI_CHECKIN_MIN_AGE - now)

\* MainWindow._process_tag, the branch of an employee tag
ui_process_emp_tag(st, uid, now) ==
    [state |-> SessionState(uid, now + UI_CHECKOUT_WINDOW),
     outcome |-> Report("employee_armed")]

\* MainWindow._process_tag, the branch of a key tag
ui_process_key_tag(l, tags, st, uid, text, now, dbnow) ==
    UNION {
      LET co == times[1]
          ci == times[2]
          same(kind) == {[logs |-> l, state |-> st, outcome |-> kind, raised |-> FALSE]}
      IN
      IF KeyAvailable(co, ci)
      THEN IF UiNoActiveEmployee(st, now)
           THEN {[logs |-> l, state |-> Idle,
                  outcome |-> Report("no_active_employee"), raised |-> FALSE]}
           ELSE IF check_out_key_exists(l, uid, text)
                THEN same(Report("already_out"))
                ELSE {[logs |-> check_out_key_insert(l, tags, uid, text,
                                   st.active_employee_card_id, dbnow),
                       state |-> st,
                       outcome |-> Report("checked_out"), raised |-> FALSE]}
      ELSE IF KeyCheckedOut(co, ci)
           THEN IF UiTooSoon(co, now)
                THEN same(ReportWait(UiRemainingWait(co, now)))
                ELSE IF check_in_key_select(l, uid, text) = {}
                     THEN same(Report("checkin_failed"))
                     ELSE {[logs |-> check_in_key_update(l, log_id, dbnow),
                            state |-> st,
                            outcome |-> Report("checked_in"), raised |-> FALSE] :
                              log_id \in check_in_key_select(l, uid, text)}
           ELSE same(Report("inconsistent"))
      : times \in get_key_log_times(l, uid, text) }

\* ------------------------------------------------------------------ state
\* The store outlives the process: a front end starts on the store earlier
\* runs left.  Here two tags were registered (and verified) before: an
\* employee tag and a key tag; the third tag was never seen.
SeedTags ==
    register_tags_upsert(register_tags_upsert(<<>>, 1, "emp", 1), 2, "key", 2)

SeedBlobs ==
    register_blob_insert(register_blob_insert(<<>>, 1, encrypt_name("name")),
                         2, encrypt_name("name"))

\* The host of Init keeps UTC; SpecZone below starts in the other zones too.
Init ==
    /\ mode \in {"cli", "ui"}
    /\ utc_offset = 0
    /\ registered_tags = SeedTags
    /\ uuid_to_encrypted_content = SeedBlobs
    /\ logs = <<>>
    /\ state = [e \in Engines |-> Idle]
    /\ clock = 0
    /\ uuid_next = 3
    /\ pc = [e \in Engines |-> "idle"]
    /\ call = [e \in Engines |-> NoCall]
    /\ outcome = [e \in Engines |-> Report("none")]

\* a rejected tap that also clears the session
Ignore_resets_session(e, report) ==
    /\ outcome' = [outcome EXCEPT ![e] = report]
    /\ state' = [state EXCEPT ![e] = Idle]
    /\ UNCHANGED <<mode, utc_offset, store, clock, uuid_next, pc, call>>

\* the tap ends with a report and nothing else
Ignore(e, report) ==
    /\ outcome' = [outcome EXCEPT ![e] = report]
    /\ UNCHANGED <<mode, utc_offset, store, state, clock, uuid_next, pc, call>>

\* Engine.register_tag up to its write-then-verify loop
register_tag(e, uid, tag_type, name, kind) ==
    IF name = ""
    THEN Ignore(e, ReportReg(kind, "aborted"))
    ELSE /\ uuid_next \in Creds
         /\ registered_tags' = register_tags_upsert(registered_tags, uid, tag_type, uuid_next)
         /\ uuid_to_encrypted_content' =
                register_blob_insert(uuid_to_encrypted_content, uuid_next, encrypt_name(name))
         /\ uuid_next' = uuid_next + 1
         /\ pc' = [pc EXCEPT ![e] = "register_tag_loop"]
         /\ call' = [call EXCEPT ![e] = [NoCall EXCEPT !.uid = uid, !.text = uuid_next]]
         /\ outcome' = [outcome EXCEPT ![e] = ReportReg(kind, "pending")]
         /\ UNCHANGED <<mode, utc_offset, logs, state, clock>>

\* the loop of register_tag leaving on any read of the right uid
register_tag_loop_uid_only(e, raises, read_uid, read_text) ==
    /\ pc[e] = "register_tag_loop"
    /\ IF ~raises /\ read_uid = call[e].uid
       THEN /\ pc' = [pc EXCEPT ![e] = "idle"]
            /\ call' = [call EXCEPT ![e] = NoCall]
            /\ outcome' = [outcome EXCEPT ![e].reg = "success"]
       ELSE /\ outcome' = [outcome EXCEPT ![e].reg = "write_verify_failed"]
            /\ UNCHANGED <<pc, call>>
    /\ UNCHANGED <<mode, utc_offset, store, state, clock, uuid_next>>

\* Engine.register_tag, one turn of the loop: write raises, or read returns
\* (read_uid, read_text)
register_tag_loop(e, raises, read_uid, read_text) ==
    /\ pc[e] = "register_tag_loop"
    /\ IF ~raises /\ read_uid = call[e].uid /\ read_text = call[e].text
       THEN /\ pc' = [pc EXCEPT ![e] = "idle"]
            /\ call' = [call EXCEPT ![e] = NoCall]
            /\ outcome' = [outcome EXCEPT ![e].reg = "success"]
       ELSE /\ outcome' = [outcome EXCEPT ![e].reg = "write_verify_failed"]
            /\ UNCHANGED <<pc, call>>
    /\ UNCHANGED <<mode, utc_offset, store, state, clock, uuid_next>>

\* the result of process_key_tag taken over with the window of an armed
\* session started anew
Becomes_renews_window(e, r) ==
    /\ logs' = r.logs
    /\ state' = [state EXCEPT ![e] =
                    IF r.state.active_employee_card_id = None
                    THEN r.state
                    ELSE SessionState(r.state.active_employee_card_id,
                                      clock + CHECKOUT_WINDOW)]
    /\ outcome' = [outcome EXCEPT ![e] = r.outcome]
    /\ pc' = [pc EXCEPT ![e] = IF r.raised THEN "crashed" ELSE "idle"]
    /\ UNCHANGED <<mode, utc_offset, registered_tags, uuid_to_encrypted_content, clock,
                   uuid_next, call>>

\* a handler's result r (of process_key_tag) becomes the next state
Becomes(e, r) ==
    /\ logs' = r.logs
    /\ state' = [state EXCEPT ![e] = r.state]
    /\ outcome' = [outcome EXCEPT ![e] = r.outcome]
    /\ pc' = [pc EXCEPT ![e] = IF r.raised THEN "crashed" ELSE "idle"]
    /\ UNCHANGED <<mode, utc_offset, registered_tags, uuid_to_encrypted_content, clock, uuid_next, call>>

\* Engine.process_card on one tap, with the operator's answers to its prompts
process_card(e, uid, text, choice, tag_type, name) ==
    /\ mode = "cli"
    /\ pc[e] = "idle"
    /\ LET now == clock
           info == get_tag_info(registered_tags, uid)
       IN
       IF info.type = "none"
       THEN IF choice = 1
            THEN register_tag(e, uid, tag_type, name, "unregistered")
            ELSE Ignore(e, Report("unregistered"))
       ELSE IF ~info.active
       THEN IF choice = 1
            THEN /\ registered_tags' = activate_tag(registered_tags, uid)
                 /\ outcome' = [outcome EXCEPT ![e] = Report("inactive")]
                 /\ UNCHANGED <<mode, utc_offset, uuid_to_encrypted_content, logs, state, clock,
                                uuid_next, pc, call>>
            ELSE Ignore(e, Report("inactive"))
       ELSE IF ~verify_tag_content(registered_tags, uuid_to_encrypted_content, uid, text)
       THEN IF choice = 1
            THEN register_tag(e, uid, tag_type, name, "tamper")
            ELSE Ignore(e, Report("tamper"))
       ELSE IF info.type = "emp"
       THEN LET r == process_emp_tag(state[e], uid, now) IN
            /\ state' = [state EXCEPT ![e] = r.state]
            /\ outcome' = [outcome EXCEPT ![e] = r.outcome]
            /\ UNCHANGED <<mode, utc_offset, store, clock, uuid_next, pc, call>>
       ELSE IF info.type = "key"
       THEN \E r \in process_key_tag(logs, registered_tags, state[e], uid, text, now, clock) :
                /\ Len(r.logs) <= MaxLogs
                /\ Becomes(e, r)
       ELSE Ignore(e, Report("unknown_type"))

\* MainWindow._process_tag on one tap
MainWindow_process_tag(e, uid, text) ==
    /\ mode = "ui"
    /\ pc[e] = "idle"
    /\ LET now == clock
           info == get_tag_info(registered_tags, uid)
       IN
       IF info.type = "none"
       THEN Ignore(e, Report("unregistered"))
       ELSE IF ~info.active
       THEN Ignore(e, Report("inactive"))
       ELSE IF ~verify_tag_content(registered_tags, uuid_to_encrypted_content, uid, text)
       THEN Ignore(e, Report("tamper"))
       ELSE IF info.type = "emp"
       THEN LET r == ui_process_emp_tag(state[e], uid, now) IN
            /\ state' = [state EXCEPT ![e] = r.state]
            /\ outcome' = [outcome EXCEPT ![e] = r.outcome]
            /\ UNCHANGED <<mode, utc_offset, store, clock, uuid_next, pc, call>>
       ELSE IF info.type = "key"
       THEN \E r \in ui_process_key_tag(logs, registered_tags, state[e], uid, text, now, clock) :
                /\ Len(r.logs) <= MaxLogs
                /\ Becomes(e, r)
       ELSE Ignore(e, Report("inconsistent"))

\* RegisterDialog._do_register: the tag the reader returned is registered,
\* written and read back once
RegisterDialog_do_register(e, uid, tag_type, name, verified) ==
    /\ mode = "ui"
    /\ pc[e] = "idle"
    /\ uuid_next \in Creds
    /\ registered_tags' = register_tags_upsert(registered_tags, uid, tag_type, uuid_next)
    /\ uuid_to_encrypted_content' =
           register_blob_insert(uuid_to_encrypted_content, uuid_next, encrypt_name(name))
    /\ uuid_next' = uuid_next + 1
    /\ outcome' = [outcome EXCEPT ![e].reg =
                      IF verified THEN "success" ELSE "write_verify_failed"]
    /\ UNCHANGED <<mode, utc_offset, logs, state, clock, pc, call>>

\* TagManagerDialog: the Activate / Deactivate button of a listed tag
TagManagerDialog_handler(uid) ==
    /\ uid \in DOMAIN registered_tags
    /\ registered_tags' = set_tag_active(registered_tags, uid, ~registered_tags[uid].active)
    /\ UNCHANGED <<mode, utc_offset, uuid_to_encrypted_content, logs, state, clock, uuid_next,
                   pc, call, outcome>>

\* time passes, and a timer clears the sessions that expire
AdvanceClock_expiring ==
    /\ \E e \in Engines : state[e] # Idle \/ logs # <<>>
    /\ \E t \in Instants :
           /\ t > clock
           /\ \A u \in Instants : u > clock => t <= u
           /\ clock' = t
           /\ state' = [e \in Engines |->
                  IF state[e].window_expires_at # None /\ t > state[e].window_expires_at
                  THEN Idle ELSE state[e]]
    /\ UNCHANGED <<mode, utc_offset, store, uuid_next, pc, call, outcome>>

\* time passes
AdvanceClock ==
    /\ \E e \in Engines : state[e] # Idle \/ logs # <<>>
    /\ \E t \in Instants :
           /\ t > clock
           /\ \A u \in Instants : u > clock => t <= u
           /\ clock' = t
    /\ UNCHANGED <<mode, utc_offset, store, state, uuid_next, pc, call, outcome>>

Names == Labels \cup {""}

\* the answers the operator can give to the prompts of a tap: [choice, type,
\* name]; a tap that prompts for nothing gets one answer, which is not read
NoAnswer == [choice |-> 2, tag_type |-> "key", name |-> ""]

Answers(uid, text) ==
    IF uid \in DOMAIN registered_tags
       /\ verify_tag_content(registered_tags, uuid_to_encrypted_content, uid, text)
    THEN {NoAnswer}
    ELSE IF uid \in DOMAIN registered_tags /\ ~registered_tags[uid].active
    THEN {NoAnswer, [NoAnswer EXCEPT !.choice = 1]}
    ELSE {NoAnswer} \cup [choice : {1}, tag_type : TagTypes, name : Names]

Next ==
    \/ \E uid \in Uids, text \in Texts :
         \E a \in Answers(uid, text) :
           process_card(MainEngine, uid, text, a.choice, a.tag_type, a.name)
    \/ \E raises \in BOOLEAN, read_uid \in Uids, read_text \in Texts :
           register_tag_loop(MainEngine, raises, read_uid, read_text)
    \/ \E uid \in Uids, text \in Texts :
           MainWindow_process_tag(MainEngine, uid, text)
    \/ \E uid \in Uids, tag_type \in TagTypes, name \in Labels, verified \in BOOLEAN :
           RegisterDialog_do_register(MainEngine, uid, tag_type, name, verified)
    \/ \E uid \in Uids : TagManagerDialog_handler(uid)
    \/ AdvanceClock

Spec == Init /\ [][Next]_vars

\* the reader eventually returns the tag that is being registered, holding
\* what was written to it
ReaderEventuallyVerifies ==
    WF_vars(register_tag_loop(MainEngine, FALSE, call[MainEngine].uid,
                              call[MainEngine].text))

SpecFair == Spec /\ ReaderEventuallyVerifies

\* ------------------------------------------------------ hosts of any zone
\* datetime.now() and datetime('now','localtime') follow the zone of the
\* host, CURRENT_TIMESTAMP does not: a host west of Greenwich, one on UTC and
\* one east of it
ZoneOffsets == {0 - Seconds(3600), 0, Seconds(3600)}

InitZone ==
    /\ mode \in {"cli", "ui"}
    /\ utc_offset \in ZoneOffsets
    /\ registered_tags = SeedTags
    /\ uuid_to_encrypted_content = SeedBlobs
    /\ logs = <<>>
    /\ state = [e \in Engines |-> Idle]
    /\ clock = 0
    /\ uuid_next = 3
    /\ pc = [e \in Engines |-> "idle"]
    /\ call = [e \in Engines |-> NoCall]
    /\ outcome = [e \in Engines |-> Report("none")]

SpecZone == InitZone /\ [][Next]_vars

\* ---------------------------------------------- two front ends on one store
\* Every front end opens its own connection per statement group (db.get_conn)
\* and sqlite3 starts a transaction only at the INSERT or UPDATE, so the
\* SELECT and the write of check_out_key and check_in_key are two steps.

Finish(e, report) ==
    /\ outcome' = [outcome EXCEPT ![e] = report]
    /\ pc' = [pc EXCEPT ![e] = "idle"]
    /\ call' = [call EXCEPT ![e] = NoCall]

\* process_key_tag up to the call of check_out_key or check_in_key:
\* get_key_log_times and the decisions taken on its result
key_tag_begin(e, uid, text) ==
    /\ pc[e] = "idle"
    /\ get_tag_info(registered_tags, uid) = [type |-> "key", active |-> TRUE]
    /\ verify_tag_content(registered_tags, uuid_to_encrypted_content, uid, text)
    /\ \E times \in get_key_log_times(logs, uid, text) :
         LET check_out == times[1]
             check_in == times[2]
             now == clock
             ui == (mode = "ui")
         IN
         IF KeyAvailable(check_out, check_in)
         THEN IF (IF ui THEN UiNoActiveEmployee(state[e], now)
                        ELSE NoActiveEmployee(state[e], now))
              THEN /\ state' = [state EXCEPT ![e] = Idle]
                   /\ Finish(e, Report("no_active_employee"))
              ELSE /\ pc' = [pc EXCEPT ![e] = "check_out_key_select"]
                   /\ call' = [call EXCEPT ![e] =
                                 [NoCall EXCEPT !.uid = uid, !.text = text,
                                    !.employee_uid = state[e].active_employee_card_id]]
                   /\ UNCHANGED <<state, outcome>>
         ELSE IF KeyCheckedOut(check_out, check_in)
         THEN IF (IF ui THEN UiTooSoon(check_out, now) ELSE TooSoon(check_out, now))
              THEN /\ Finish(e, ReportWait(IF ui THEN UiRemainingWait(check_out, now)
                                                 ELSE RemainingWait(check_out, now)))
                   /\ UNCHANGED state
              ELSE /\ pc' = [pc EXCEPT ![e] = "check_in_key_select"]
                   /\ call' = [call EXCEPT ![e] = [NoCall EXCEPT !.uid = uid, !.text = text]]
                   /\ UNCHANGED <<state, outcome>>
         ELSE /\ Finish(e, Report("inconsistent"))
              /\ UNCHANGED state
    /\ UNCHANGED <<mode, utc_offset, store, clock, uuid_next>>

\* check_out_key, the SELECT and the raise
check_out_key_select_step(e) ==
    /\ pc[e] = "check_out_key_select"
    /\ IF check_out_key_exists(logs, call[e].uid, call[e].text)
       THEN Finish(e, Report("already_out"))
       ELSE /\ pc' = [pc EXCEPT ![e] = "check_out_key_insert"]
            /\ UNCHANGED <<call, outcome>>
    /\ UNCHANGED <<mode, utc_offset, store, state, clock, uuid_next>>

\* check_out_key, the INSERT and the commit
check_out_key_insert_step(e) ==
    /\ pc[e] = "check_out_key_insert"
    /\ Len(logs) < MaxLogs
    /\ logs' = check_out_key_insert(logs, registered_tags, call[e].uid, call[e].text,
                                    call[e].employee_uid, clock)
    /\ Finish(e, Report("checked_out"))
    /\ UNCHANGED <<mode, utc_offset, registered_tags, uuid_to_encrypted_content, state, clock, uuid_next>>

\* check_in_key, the SELECT and the raise: Engine.process_key_tag lets the
\* ValueError through, MainWindow._process_tag catches it
check_in_key_select_step(e) ==
    /\ pc[e] = "check_in_key_select"
    /\ IF check_in_key_select(logs, call[e].uid, call[e].text) = {}
       THEN IF mode = "ui"
            THEN Finish(e, Report("checkin_failed"))
            ELSE /\ outcome' = [outcome EXCEPT ![e] = Report("exception")]
                 /\ pc' = [pc EXCEPT ![e] = "crashed"]
                 /\ call' = [call EXCEPT ![e] = NoCall]
       ELSE \E log_id \in check_in_key_select(logs, call[e].uid, call[e].text) :
              /\ pc' = [pc EXCEPT ![e] = "check_in_key_update"]
              /\ call' = [call EXCEPT ![e].log_id = log_id]
              /\ UNCHANGED outcome
    /\ UNCHANGED <<mode, utc_offset, store, state, clock, uuid_next>>

\* check_in_key, the UPDATE and the commit
check_in_key_update_step(e) ==
    /\ pc[e] = "check_in_key_update"
    /\ logs' = check_in_key_update(logs, call[e].log_id, clock)
    /\ Finish(e, Report("checked_in"))
    /\ UNCHANGED <<mode, utc_offset, registered_tags, uuid_to_encrypted_content, state, clock, uuid_next>>

\* a tap of an employee tag: it reads the store and writes the session only
emp_tag(e, uid, text) ==
    /\ get_tag_info(registered_tags, uid) = [type |-> "emp", active |-> TRUE]
    /\ verify_tag_content(registered_tags, uuid_to_encrypted_content, uid, text)
    /\ \/ process_card(e, uid, text, NoAnswer.choice, NoAnswer.tag_type, NoAnswer.name)
       \/ MainWindow_process_tag(e, uid, text)

NextRace ==
    \/ \E e \in Engines, uid \in Uids, text \in Texts : emp_tag(e, uid, text)
    \/ \E e \in Engines, uid \in Uids, text \in Texts : key_tag_begin(e, uid, text)
    \/ \E e \in Engines : check_out_key_select_step(e)
    \/ \E e \in Engines : check_out_key_insert_step(e)
    \/ \E e \in Engines : check_in_key_select_step(e)
    \/ \E e \in Engines : check_in_key_update_step(e)
    \/ AdvanceClock

SpecRace == Init /\ [][NextRace]_vars

\* ------------------------------------------- the operations of the store
\* verify_tag_content and register_or_overwrite_tag called once, with any
\* arguments, on any store the schema admits: the schema enforces no foreign
\* key, so a registration may name a credential that has no label record.
StoreUids == {1, 2}

\* the rows of this specification keep registered_at too: the stored tags
\* were registered a minute before the call
TagRows ==
    [text_uuid : Creds, type : TagTypes, active : BOOLEAN,
     registered_at : {0 - Seconds(60)}]

Ciphertexts == {encrypt_name(name) : name \in Names}

TagTables == UNION {[S -> TagRows] : S \in SUBSET StoreUids}

BlobTables == UNION {[S -> Ciphertexts] : S \in SUBSET Creds}

InitStore ==
    /\ mode = "cli"
    /\ utc_offset = 0
    /\ registered_tags \in TagTables
    /\ uuid_to_encrypted_content \in BlobTables
    /\ logs = <<>>
    /\ state = [e \in Engines |-> Idle]
    /\ clock = 0
    /\ uuid_next = 3
    /\ pc = [e \in Engines |-> "idle"]
    /\ call = [e \in Engines |-> NoCall]
    /\ outcome = [e \in Engines |-> Report("none")]

\* verify_tag_content(uid, expected_content) is called and returns
verify_tag_content_call(e, uid, expected_content) ==
    /\ pc[e] = "idle"
    /\ pc' = [pc EXCEPT ![e] = "returned"]
    /\ call' = [call EXCEPT ![e] = [NoCall EXCEPT !.uid = uid, !.text = expected_content]]
    /\ outcome' = [outcome EXCEPT ![e] =
           Report(IF verify_tag_content(registered_tags, uuid_to_encrypted_content,
                                        uid, expected_content)
                  THEN "content_valid" ELSE "content_invalid")]
    /\ UNCHANGED <<mode, utc_offset, store, state, clock, uuid_next>>

\* the first statement of register_or_overwrite_tag as an INSERT OR REPLACE:
\* the row is written anew, with the defaults of its other columns
register_tags_insert_or_replace(tags, uid, tag_type, text_uuid, t) ==
    [u \in DOMAIN tags \cup {uid} |->
        IF u = uid
        THEN [text_uuid |-> text_uuid, type |-> tag_type, active |-> TRUE,
              registered_at |-> localtime_now(t)]
        ELSE tags[u]]

\* the first statement of register_or_overwrite_tag at local time t, with the
\* column registered_at: the INSERT names uid, text_uuid, type and updated_at,
\* so that a new row takes the defaults of active and of registered_at; the
\* DO UPDATE sets text_uuid, type and updated_at and nothing else
register_tags_upsert_stamped(tags, uid, tag_type, text_uuid, t) ==
    LET named == register_tags_upsert(tags, uid, tag_type, text_uuid) IN
    IF uid \in DOMAIN tags
    THEN named
    ELSE [u \in DOMAIN named |->
            IF u = uid
            THEN [text_uuid |-> named[u].text_uuid,
                  type |-> named[u].type,
                  active |-> named[u].active,
                  registered_at |-> localtime_now(t)]
            ELSE named[u]]

\* register_or_overwrite_tag(uid, tag_type, text_uuid, encrypted_content) is
\* called and returns
register_or_overwrite_tag_call(e, uid, tag_type, text_uuid, encrypted_content) ==
    /\ pc[e] = "idle"
    /\ registered_tags' =
           register_tags_upsert_stamped(registered_tags, uid, tag_type, text_uuid, clock)
    /\ uuid_to_encrypted_content' =
           register_blob_insert(uuid_to_encrypted_content, text_uuid, encrypted_content)
    /\ pc' = [pc EXCEPT ![e] = "returned"]
    /\ call' = [call EXCEPT ![e] = [NoCall EXCEPT !.uid = uid, !.text = text_uuid,
                                                   !.content = {encrypted_content}]]
    /\ outcome' = [outcome EXCEPT ![e] = Report("stored")]
    /\ UNCHANGED <<mode, utc_offset, logs, state, clock, uuid_next>>

\* activate_tag(uid) is called and returns
activate_tag_call(e, uid) ==
    /\ pc[e] = "idle"
    /\ registered_tags' = activate_tag(registered_tags, uid)
    /\ pc' = [pc EXCEPT ![e] = "returned"]
    /\ call' = [call EXCEPT ![e] = [NoCall EXCEPT !.uid = uid]]
    /\ outcome' = [outcome EXCEPT ![e] = Report("activated")]
    /\ UNCHANGED <<mode, utc_offset, uuid_to_encrypted_content, logs, state, clock, uuid_next>>

\* services.set_tag_active(uid, active) is called and returns
set_tag_active_call(e, uid, active) ==
    /\ pc[e] = "idle"
    /\ registered_tags' = set_tag_active(registered_tags, uid, active)
    /\ pc' = [pc EXCEPT ![e] = "returned"]
    /\ call' = [call EXCEPT ![e] = [NoCall EXCEPT !.uid = uid]]
    /\ outcome' = [outcome EXCEPT ![e] =
                      Report(IF active THEN "set_active" ELSE "set_inactive")]
    /\ UNCHANGED <<mode, utc_offset, uuid_to_encrypted_content, logs, state, clock, uuid_next>>

NextStore ==
    \/ \E uid \in Uids, expected_content \in Texts :
           verify_tag_content_call(MainEngine, uid, expected_content)
    \/ \E uid \in Uids, tag_type \in TagTypes, text_uuid \in Creds,
            encrypted_content \in Ciphertexts :
           register_or_overwrite_tag_call(MainEngine, uid, tag_type, text_uuid,
                                          encrypted_content)
    \/ \E uid \in Uids : activate_tag_call(MainEngine, uid)
    \/ \E uid \in Uids, active \in BOOLEAN : set_tag_active_call(MainEngine, uid, active)

SpecStore == InitStore /\ [][NextStore]_vars

\* ------------------------------------------------------- the label cipher
\* crypto_secure.py and the listings of services.py that decrypt.  A label
\* is a str: a sequence of code points; bytes are a sequence of 0..255.  A
\* function that can raise returns [exc, value]: exc = "none" when it returns.
TheKey == 1

ForeignKey == 2

NonceLen == 12

Returned(value) == [exc |-> "none", value |-> value]

Raised(exc) == [exc |-> exc, value |-> <<>>]

\* blob[:n] and blob[n:] of Python: the bounds are clamped
Take(s, n) == SubSeq(s, 1, IF n < Len(s) THEN n ELSE Len(s))

Drop(s, n) == SubSeq(s, (IF n < Len(s) THEN n ELSE Len(s)) + 1, Len(s))

IsSurrogate(cp) == cp >= 55296 /\ cp <= 57343

\* the UTF-8 bytes of one code point
utf8_encode_char(cp) ==
    IF cp < 128 THEN <<cp>>
    ELSE IF cp < 2048 THEN <<192 + (cp \div 64), 128 + (cp % 64)>>
    ELSE IF cp < 65536
    THEN <<224 + (cp \div 4096), 128 + ((cp \div 64) % 64), 128 + (cp % 64)>>
    ELSE <<240 + (cp \div 262144), 128 + ((cp \div 4096) % 64),
           128 + ((cp \div 64) % 64), 128 + (cp % 64)>>

\* str.encode("utf-8"): a lone surrogate raises UnicodeEncodeError
RECURSIVE str_encode_utf8(_)
str_encode_utf8(s) ==
    IF s = <<>> THEN Returned(<<>>)
    ELSE IF IsSurrogate(Head(s)) THEN Raised("UnicodeEncodeError")
    ELSE LET rest == str_encode_utf8(Tail(s)) IN
         IF rest.exc # "none" THEN rest
         ELSE Returned(utf8_encode_char(Head(s)) \o rest.value)

\* str.encode("latin1"): a code point above 255 raises UnicodeEncodeError
str_encode_latin1(s) ==
    IF \E i \in 1..Len(s) : s[i] > 255
    THEN Raised("UnicodeEncodeError")
    ELSE Returned(s)

\* the length of the UTF-8 sequence a lead byte announces, 0 for a byte that
\* cannot lead
utf8_length(b1) ==
    IF b1 < 128 THEN 1
    ELSE IF b1 >= 194 /\ b1 <= 223 THEN 2
    ELSE IF b1 >= 224 /\ b1 <= 239 THEN 3
    ELSE IF b1 >= 240 /\ b1 <= 244 THEN 4
    ELSE 0

\* bytes.decode("utf-8"): truncated, overlong and surrogate sequences raise
\* UnicodeDecodeError
RECURSIVE bytes_decode_utf8(_)
bytes_decode_utf8(b) ==
    IF b = <<>> THEN Returned(<<>>)
    ELSE LET b1 == b[1]
             n == utf8_length(b1)
         IN
         IF \/ n = 0
            \/ Len(b) < n
            \/ \E i \in 2..n : b[i] < 128 \/ b[i] > 191
            \/ n = 3 /\ ((b1 = 224 /\ b[2] < 160) \/ (b1 = 237 /\ b[2] > 159))
            \/ n = 4 /\ ((b1 = 240 /\ b[2] < 144) \/ (b1 = 244 /\ b[2] > 143))
         THEN Raised("UnicodeDecodeError")
         ELSE LET cp == IF n = 1 THEN b1
                        ELSE IF n = 2 THEN (b1 - 192) * 64 + (b[2] - 128)
                        ELSE IF n = 3
                        THEN (b1 - 224) * 4096 + (b[2] - 128) * 64 + (b[3] - 128)
                        ELSE (b1 - 240) * 262144 + (b[2] - 128) * 4096
                             + (b[3] - 128) * 64 + (b[4] - 128)
                  rest == bytes_decode_utf8(SubSeq(b, n + 1, Len(b)))
              IN  IF rest.exc # "none" THEN rest
                  ELSE Returned(<<cp>> \o rest.value)

\* AESGCM(key).encrypt(nonce, data, None): ciphertext and tag, kept as one
\* sealed element that only the same key and nonce open
AESGCM_encrypt(key, nonce, data) == <<[k |-> key, n |-> nonce, d |-> data]>>

\* AESGCM(key).decrypt(nonce, ct, None): InvalidTag unless ct is what encrypt
\* returned for this key and nonce
AESGCM_decrypt(key, nonce, ct) ==
    IF Len(ct) # 1 THEN Raised("InvalidTag")
    ELSE IF ct[1].k # key \/ ct[1].n # nonce THEN Raised("InvalidTag")
    ELSE Returned(ct[1].d)

\* decrypt_name splitting the blob one byte early
Crypto_decrypt_name_short_nonce(key, blob) ==
    LET nonce == Take(blob, NonceLen - 1)
        ct == Drop(blob, NonceLen - 1)
        pt == AESGCM_decrypt(key, nonce, ct)
    IN  IF pt.exc # "none" THEN pt ELSE bytes_decode_utf8(pt.value)

\* Crypto.encrypt_name, with the nonce os.urandom(12) returned
Crypto_encrypt_name(key, nonce, full_name) ==
    LET data == str_encode_utf8(full_name) IN
    IF data.exc # "none" THEN data
    ELSE Returned(nonce \o AESGCM_encrypt(key, nonce, data.value))

\* Crypto.decrypt_name
Crypto_decrypt_name(key, blob) ==
    LET nonce == Take(blob, NonceLen)
        ct == Drop(blob, NonceLen)
        pt == AESGCM_decrypt(key, nonce, ct)
    IN  IF pt.exc # "none" THEN pt ELSE bytes_decode_utf8(pt.value)

\* "(unknown)"
Unknown == <<40, 117, 110, 107, 110, 111, 119, 110, 41>>

\* a column value as sqlite3 returns it: bytes for a BLOB, str for a TEXT
BlobValue(v) == [type |-> "bytes", v |-> v]

TextValue(v) == [type |-> "str", v |-> v]

\* LEFT JOIN uuid_to_encrypted_content ON uuid = ...: the encrypted_content
\* found, {} for NULL (uuid is the primary key: at most one row matches)
JoinedBlob(blobs, uuid) == IF uuid \in DOMAIN blobs THEN {blobs[uuid]} ELSE {}

\* _decrypt_or_none without its try / except
decrypt_or_none_uncaught(key, cell) ==
    IF cell = {} THEN Returned({})
    ELSE LET blob == CHOOSE b \in cell : TRUE
             blob_bytes == IF blob.type = "str" THEN str_encode_latin1(blob.v)
                           ELSE Returned(blob.v)
             name == IF blob_bytes.exc # "none" THEN blob_bytes
                     ELSE Crypto_decrypt_name(key, blob_bytes.value)
         IN  IF name.exc # "none" THEN name ELSE Returned({name.value})

\* services._decrypt_or_none: the Optional[str] it returns is {} for None
decrypt_or_none(key, cell) ==
    IF cell = {} THEN Returned({})
    ELSE LET blob == CHOOSE b \in cell : TRUE
             blob_bytes == IF blob.type = "str" THEN str_encode_latin1(blob.v)
                           ELSE Returned(blob.v)
             name == IF blob_bytes.exc # "none" THEN blob_bytes
                     ELSE Crypto_decrypt_name(key, blob_bytes.value)
         IN  IF name.exc # "none" THEN Returned({}) ELSE Returned({name.value})

\* x or "(unknown)": None and the empty str are falsy
OrUnknown(opt) ==
    IF opt = {} \/ opt = {<<>>} THEN Unknown ELSE CHOOSE x \in opt : TRUE

\* fetch_logs, the WHERE clause
SelectedLogs(l, start, end) ==
    {i \in 1..Len(l) :
        /\ start = None \/ l[i].checkOutTime >= start
        /\ end = None \/ l[i].checkOutTime <= end}

\* fetch_logs, ORDER BY l.checkOutTime DESC LIMIT ?: the orders it may
\* return the selected rows in
OrderedLogs(l, rows, limit) ==
    LET n == IF Cardinality(rows) < limit THEN Cardinality(rows) ELSE limit IN
    {s \in [1..n -> rows] :
        /\ \A a, b \in 1..n :
              a < b => s[a] # s[b] /\ l[s[a]].checkOutTime >= l[s[b]].checkOutTime
        /\ \A j \in rows \ {s[a] : a \in 1..n} :
              \A a \in 1..n : l[j].checkOutTime <= l[s[a]].checkOutTime}

\* fetch_logs, the body of its loop: the LogRow of ledger row i, or the
\* exception that leaves the loop
LogRow(key, l, blobs, i) ==
    LET key_label == decrypt_or_none(key, JoinedBlob(blobs, l[i].text_uuid))
        employee_name ==
            IF l[i].employee_text_uuid # None
            THEN decrypt_or_none(key, JoinedBlob(blobs, l[i].employee_text_uuid))
            ELSE Returned({})
    IN  IF key_label.exc # "none" THEN key_label
        ELSE IF employee_name.exc # "none" THEN employee_name
        ELSE Returned([id |-> l[i].id,
                       key_uid |-> l[i].tag_uid,
                       key_uuid |-> l[i].text_uuid,
                       emp_uuid |-> l[i].employee_text_uuid,
                       key_label |-> OrUnknown(key_label.value),
                       employee_name |-> employee_name.value,
                       check_out |-> l[i].checkOutTime,
                       check_in |-> l[i].checkInTime])

\* services.fetch_logs: the lists it may return
fetch_logs(key, l, blobs, start, end, limit) ==
    {IF \E a \in DOMAIN s : LogRow(key, l, blobs, s[a]).exc # "none"
     THEN Raised("Exception")
     ELSE Returned([a \in DOMAIN s |-> LogRow(key, l, blobs, s[a]).value])
       : s \in OrderedLogs(l, SelectedLogs(l, start, end), limit)}

\* fetch_registered_tags, ORDER BY t.type, t.uid
OrderedTags(tags) ==
    CHOOSE s \in [1..Cardinality(DOMAIN tags) -> DOMAIN tags] :
        \A a, b \in DOMAIN s :
            a < b => \/ tags[s[a]].type = "emp" /\ tags[s[b]].type = "key"
                     \/ tags[s[a]].type = tags[s[b]].type /\ s[a] < s[b]

\* fetch_registered_tags, the body of its loop
TagRow(key, tags, blobs, uid) ==
    LET label == decrypt_or_none(key, JoinedBlob(blobs, tags[uid].text_uuid)) IN
    IF label.exc # "none" THEN label
    ELSE Returned([uid |-> uid,
                   uuid |-> tags[uid].text_uuid,
                   type |-> tags[uid].type,
                   active |-> tags[uid].active,
                   label |-> OrUnknown(label.value)])

\* services.fetch_registered_tags
fetch_registered_tags(key, tags, blobs) ==
    LET s == OrderedTags(tags) IN
    IF \E a \in DOMAIN s : TagRow(key, tags, blobs, s[a]).exc # "none"
    THEN Raised("Exception")
    ELSE Returned([a \in DOMAIN s |-> TagRow(key, tags, blobs, s[a]).value])

\* ------------------------------------------ the cipher and the listings
\* encrypt_name, decrypt_name, fetch_logs and fetch_registered_tags called
\* on a store whose label records hold readable and unreadable blobs.
MaxLabelLen == 2

\* 'A', e acute, the euro sign, an emoji, and a lone surrogate
CodePoints == {65, 233, 8364, 128512, 55357}

LabelTexts == UNION {[1..n -> CodePoints] : n \in 0..MaxLabelLen}

\* the values os.urandom(12) returns here
Nonces == {[i \in 1..NonceLen |-> 0], [i \in 1..NonceLen |-> (17 * i) % 256]}

\* the blob an earlier registration stored for the label "K"
StoredBlob == Crypto_encrypt_name(TheKey, [i \in 1..NonceLen |-> 0], <<75>>).value

\* what a label record can hold: the blob of "K"; the blob of the empty
\* label; a blob sealed under another key; a blob with a flipped bit; a
\* truncated blob; sealed bytes that are not UTF-8; TEXT values
StoredCells ==
    { BlobValue(StoredBlob),
      BlobValue(Crypto_encrypt_name(TheKey, [i \in 1..NonceLen |-> 0], <<>>).value),
      BlobValue(Crypto_encrypt_name(ForeignKey, [i \in 1..NonceLen |-> 0], <<75>>).value),
      BlobValue([StoredBlob EXCEPT ![1] = 1]),
      BlobValue(Take(StoredBlob, 5)),
      BlobValue([i \in 1..NonceLen |-> 0]
                \o AESGCM_encrypt(TheKey, [i \in 1..NonceLen |-> 0], <<255>>)),
      TextValue(<<75, 8364>>),
      TextValue(<<75>>) }

CellTables == UNION {[S -> StoredCells] : S \in SUBSET {SeedTags[u].text_uuid : u \in DOMAIN SeedTags}}

\* the ledgers of the seeded key: empty, checked out, checked in and out again
CipherLedgers ==
    { <<>>,
      check_out_key_insert(<<>>, SeedTags, 2, 2, 1, 0),
      check_out_key_insert(
          check_in_key_update(check_out_key_insert(<<>>, SeedTags, 2, 2, 1, 0),
                              1, CHECKIN_MIN_AGE),
          SeedTags, 2, 2, 1, CHECKIN_MIN_AGE) }

NoCipherCall == [full_name |-> <<>>, blobs |-> {}, start |-> None, end |-> None,
                 limit |-> 0]

InitCipher ==
    /\ mode = "ui"
    /\ utc_offset = 0
    /\ registered_tags = SeedTags
    /\ uuid_to_encrypted_content \in CellTables
    /\ logs \in CipherLedgers
    /\ state = [e \in Engines |-> Idle]
    /\ clock = 0
    /\ uuid_next = 3
    /\ pc = [e \in Engines |-> "idle"]
    /\ call = [e \in Engines |-> NoCipherCall]
    /\ outcome = [e \in Engines |-> Returned(<<>>)]

\* crypto.encrypt_name(full_name) is called, for the first time or once more
\* with the same label, and returns or raises
encrypt_name_call(e, full_name, nonce) ==
    /\ \/ pc[e] = "idle"
       \/ /\ pc[e] = "encrypted"
          /\ full_name = call[e].full_name
          /\ Cardinality(call[e].blobs) < 2
    /\ LET r == Crypto_encrypt_name(TheKey, nonce, full_name) IN
       /\ outcome' = [outcome EXCEPT ![e] = r]
       /\ IF r.exc = "none"
          THEN /\ pc' = [pc EXCEPT ![e] = "encrypted"]
               /\ call' = [call EXCEPT ![e] =
                             [NoCipherCall EXCEPT !.full_name = full_name,
                                                  !.blobs = call[e].blobs \cup {r.value}]]
          ELSE /\ pc' = [pc EXCEPT ![e] = "raised"]
               /\ call' = [call EXCEPT ![e] = [NoCipherCall EXCEPT !.full_name = full_name]]
    /\ UNCHANGED <<mode, utc_offset, store, state, clock, uuid_next>>

\* crypto.decrypt_name(blob) is called on a blob encrypt_name returned
decrypt_name_call(e, blob) ==
    /\ pc[e] = "encrypted"
    /\ blob \in call[e].blobs
    /\ outcome' = [outcome EXCEPT ![e] = Crypto_decrypt_name(TheKey, blob)]
    /\ pc' = [pc EXCEPT ![e] = "decrypted"]
    /\ UNCHANGED <<mode, utc_offset, store, state, clock, uuid_next, call>>

\* fetch_logs(crypto, start, end, limit) is called and returns or raises
fetch_logs_call(e, start, end, limit) ==
    /\ pc[e] = "idle"
    /\ \E r \in fetch_logs(TheKey, logs, uuid_to_encrypted_content, start, end, limit) :
           outcome' = [outcome EXCEPT ![e] = r]
    /\ pc' = [pc EXCEPT ![e] = "listed_logs"]
    /\ call' = [call EXCEPT ![e] =
                  [NoCipherCall EXCEPT !.start = start, !.end = end, !.limit = limit]]
    /\ UNCHANGED <<mode, utc_offset, store, state, clock, uuid_next>>

\* fetch_registered_tags(crypto) is called and returns or raises
fetch_registered_tags_call(e) ==
    /\ pc[e] = "idle"
    /\ outcome' = [outcome EXCEPT ![e] =
                      fetch_registered_tags(TheKey, registered_tags,
                                            uuid_to_encrypted_content)]
    /\ pc' = [pc EXCEPT ![e] = "listed_tags"]
    /\ UNCHANGED <<mode, utc_offset, store, state, clock, uuid_next, call>>

\* the ranges and limits of the listing: no bound, the first instant, one row,
\* the default of 200 rows
NextCipher ==
    \/ \E full_name \in LabelTexts, nonce \in Nonces :
           encrypt_name_call(MainEngine, full_name, nonce)
    \/ \E blob \in call[MainEngine].blobs : decrypt_name_call(MainEngine, blob)
    \/ \E start \in {None, CHECKIN_MIN_AGE}, end \in {None, 0}, limit \in {1, 200} :
           fetch_logs_call(MainEngine, start, end, limit)
    \/ fetch_registered_tags_call(MainEngine)

SpecCipher == InitCipher /\ [][NextCipher]_vars

\* ------------------------------------------------- a tap in the cooldown
\* datetime.now() keeps the microseconds, checkOutTime has none: the seeded
\* key was checked out at the whole second t0 and is tapped at any instant
\* of its cooldown.
InitCooldown ==
    /\ mode \in {"cli", "ui"}
    /\ utc_offset = 0
    /\ registered_tags = SeedTags
    /\ uuid_to_encrypted_content = SeedBlobs
    /\ \E t0 \in {Seconds(0), Seconds(1)} :
          /\ logs = check_out_key_insert(<<>>, SeedTags, 2, 2, 1, t0)
          /\ clock \in t0 .. (t0 + CHECKIN_MIN_AGE - 1)
    /\ state = [e \in Engines |-> Idle]
    /\ uuid_next = 3
    /\ pc = [e \in Engines |-> "idle"]
    /\ call = [e \in Engines |-> NoCall]
    /\ outcome = [e \in Engines |-> Report("none")]

NextCooldown ==
    \/ \E uid \in DOMAIN SeedTags :
           process_card(MainEngine, uid, SeedTags[uid].text_uuid,
                        NoAnswer.choice, NoAnswer.tag_type, NoAnswer.name)
    \/ \E uid \in DOMAIN SeedTags :
           MainWindow_process_tag(MainEngine, uid, SeedTags[uid].text_uuid)

SpecCooldown == InitCooldown /\ [][NextCooldown]_vars

\* ===================================================================
\* Properties
\* ===================================================================
\* the ledger entries of a (key_uid, credential_id) pair, in a ledger l
EntriesOf(l, uid, cred) ==
    {i \in 1..Len(l) : l[i].tag_uid = uid /\ l[i].text_uuid = cred}

OpenEntriesOf(l, uid, cred) ==
    {i \in EntriesOf(l, uid, cred) : l[i].checkInTime = None}

\* the entries of the pair no other entry of the pair is more recent than
LatestEntriesOf(l, uid, cred) ==
    {i \in EntriesOf(l, uid, cred) :
        \A j \in EntriesOf(l, uid, cred) : l[j].checkOutTime <= l[i].checkOutTime}

\* ledger state "available": no entry for the pair, or the latest is closed
LedgerAvailable(uid, cred) ==
    \A i \in LatestEntriesOf(logs, uid, cred) : logs[i].checkInTime # None

\* ledger state "checked out": the latest entry of the pair is open
LedgerOpen(uid, cred) ==
    /\ LatestEntriesOf(logs, uid, cred) # {}
    /\ \A i \in LatestEntriesOf(logs, uid, cred) : logs[i].checkInTime = None

\* t0, the checkout_time of the latest entry of the pair
CheckedOutAt(uid, cred) ==
    logs[CHOOSE i \in LatestEntriesOf(logs, uid, cred) : TRUE].checkOutTime

\* the tag is registered, active, and holds the credential bound to its uid
ContentValid(uid, text) ==
    /\ uid \in DOMAIN registered_tags
    /\ registered_tags[uid].active
    /\ registered_tags[uid].text_uuid = text

ValidKey(uid, text) == ContentValid(uid, text) /\ registered_tags[uid].type = "key"

ValidEmp(uid, text) == ContentValid(uid, text) /\ registered_tags[uid].type = "emp"

\* the step is the handling of a tap of (uid, text), the prompts answered by a
TapWith(uid, text, a) ==
    \/ process_card(MainEngine, uid, text, a.choice, a.tag_type, a.name)
    \/ MainWindow_process_tag(MainEngine, uid, text)

Tap(uid, text) == \E a \in Answers(uid, text) : TapWith(uid, text, a)

session == state[MainEngine]

reported == outcome[MainEngine]

Armed == session.active_employee_card_id # None /\ session.window_expires_at # None

\* C1: with a single engine handling one tap at a time, the ledger never
\* holds two entries with checkin_time = null for one (key_uid, credential_id)
\* pair, whatever taps, registrations and activation toggles happened.
AtMostOneOpenEntryPerPair ==
    \A uid \in Uids, cred \in Texts : Cardinality(OpenEntriesOf(logs, uid, cred)) <= 1

\* a pair that was checked out, checked in and checked out again
SecondCheckoutOfAPair ==
    \E uid \in Uids, cred \in Texts :
        /\ OpenEntriesOf(logs, uid, cred) # {}
        /\ EntriesOf(logs, uid, cred) \ OpenEntriesOf(logs, uid, cred) # {}

\* C3: a content-valid key tap on an available key with no session, or with
\* an expired one, reports "no active employee", leaves the ledger as it was
\* and leaves the session Idle.
NoSessionNoCheckout ==
    [][\A uid \in Uids, text \in Texts :
         ( /\ ValidKey(uid, text)
           /\ LedgerAvailable(uid, text)
           /\ (session = Idle \/ (Armed /\ clock > session.window_expires_at))
           /\ Tap(uid, text) )
         => /\ reported'.kind = "no_active_employee"
            /\ logs' = logs
            /\ session' = Idle]_vars

\* a key tap was refused for want of a session
RefusedNoSession ==
    /\ reported.kind = "no_active_employee"
    /\ session = Idle
    /\ \E uid \in Uids, text \in Texts : ValidKey(uid, text) /\ LedgerAvailable(uid, text)

\* C4: a content-valid key tap on a key checked out at t0, at now < t0 +
\* CHECKIN_MIN_AGE, is answered with the cooldown outcome and changes neither
\* the ledger nor the session.
CooldownRejects ==
    [][\A uid \in Uids, text \in Texts :
         ( /\ ValidKey(uid, text)
           /\ LedgerOpen(uid, text)
           /\ clock < CheckedOutAt(uid, text) + CHECKIN_MIN_AGE
           /\ Tap(uid, text) )
         => /\ reported'.kind = "checkin_wait"
            /\ logs' = logs
            /\ session' = session]_vars

\* a check-in was refused during the cooldown
RefusedCooldown ==
    /\ reported.kind = "checkin_wait"
    /\ \E uid \in Uids, text \in Texts :
          /\ ValidKey(uid, text)
          /\ LedgerOpen(uid, text)
          /\ clock < CheckedOutAt(uid, text) + CHECKIN_MIN_AGE

\* C5: a content-valid key tap on a key checked out at t0, at now >= t0 +
\* CHECKIN_MIN_AGE, stamps checkin_time on the most recent open entry of the
\* pair and on no other entry, reports "checked in", and does so in any
\* session state, which it leaves as it was.
CheckInAfterCooldown ==
    [][\A uid \in Uids, text \in Texts :
         ( /\ ValidKey(uid, text)
           /\ LedgerOpen(uid, text)
           /\ clock >= CheckedOutAt(uid, text) + CHECKIN_MIN_AGE
           /\ Tap(uid, text) )
         => /\ reported'.kind = "checked_in"
            /\ session' = session
            /\ Len(logs') = Len(logs)
            /\ \E i \in LatestEntriesOf(logs, uid, text) :
                  /\ logs[i].checkInTime = None
                  /\ logs'[i].checkInTime # None
                  /\ logs' = [logs EXCEPT ![i].checkInTime = logs'[i].checkInTime]]_vars

\* a key was checked in at the very end of its cooldown, in an armed session,
\* next to an entry of another key
CheckedInAtTheBoundary ==
    /\ reported.kind = "checked_in"
    /\ Armed
    /\ \E i, j \in 1..Len(logs) :
          /\ i # j
          /\ logs[i].checkInTime = logs[i].checkOutTime + CHECKIN_MIN_AGE
          /\ logs[i].checkInTime = clock
          /\ logs[j].checkInTime = None

\* C2: two front ends on one store can both pass the existence check of
\* check_out_key before either inserts; the insert is then made although an
\* open entry of the pair exists by now, and the pair has two open entries.
InsertDoesNotRecheck ==
    [][\A e \in Engines :
         ( /\ pc[e] = "check_out_key_insert"
           /\ pc'[e] = "idle"
           /\ OpenEntriesOf(logs, call[e].uid, call[e].text) # {} )
         => /\ outcome'[e].kind = "checked_out"
            /\ Len(logs') = Len(logs) + 1
            /\ Cardinality(OpenEntriesOf(logs', call[e].uid, call[e].text)) >= 2]_vars

\* both front ends checked the same pair out
TwoOpenEntriesOfAPair ==
    \E uid \in Uids, cred \in Texts :
        /\ Cardinality(OpenEntriesOf(logs, uid, cred)) = 2
        /\ \A e \in Engines : outcome[e].kind = "checked_out"

\* C6 (as stated): from Armed(uid, exp), a content-valid tap of the same
\* employee at now <= exp leaves the session Idle, whichever handler takes it.
SecondTapCancels ==
    [][\A uid \in Uids, text \in Texts :
         ( /\ ValidEmp(uid, text)
           /\ session.active_employee_card_id = uid
           /\ session.window_expires_at # None
           /\ clock <= session.window_expires_at
           /\ Tap(uid, text) )
         => session' = Idle]_vars

\* C7: a content-valid employee tap that is not a tap of the armed employee
\* inside the window arms the session for that employee until now +
\* CHECKOUT_WINDOW, replacing whatever session there was; a checkout is
\* attributed to the employee armed when the key is tapped.
EmployeeTapArms ==
    [][/\ \A uid \in Uids, text \in Texts :
            ( /\ ValidEmp(uid, text)
              /\ ~ ( /\ session.active_employee_card_id = uid
                     /\ session.window_expires_at # None
                     /\ clock <= session.window_expires_at )
              /\ Tap(uid, text) )
            => /\ session' = SessionState(uid, clock + CHECKOUT_WINDOW)
               /\ logs' = logs
       /\ \A uid \in Uids, text \in Texts :
            ( /\ ValidKey(uid, text)
              /\ Len(logs') = Len(logs) + 1
              /\ Tap(uid, text) )
            => /\ Armed
               /\ logs'[Len(logs')].employee_text_uuid =
                      registered_tags[session.active_employee_card_id].text_uuid]_vars

\* the seeded employee checked a key out at this instant, and the session is
\* now armed for the other employee
ArmedForAnotherEmployee ==
    /\ reported.kind = "employee_armed"
    /\ session = SessionState(0, clock + CHECKOUT_WINDOW)
    /\ \E i \in 1..Len(logs) :
          /\ logs[i].employee_text_uuid = SeedTags[1].text_uuid
          /\ logs[i].checkOutTime = clock

\* an entry made in the window of the session as it is armed now
CheckedOutInThisWindow ==
    /\ Armed
    /\ \E i \in 1..Len(logs) :
          /\ logs[i].employee_text_uuid =
                 registered_tags[session.active_employee_card_id].text_uuid
          /\ logs[i].checkOutTime + CHECKOUT_WINDOW >= session.window_expires_at
          /\ logs[i].checkOutTime <= session.window_expires_at

\* C8: a successful checkout leaves the session exactly as it was; a further
\* available key tapped at now <= window_expires_at is checked out too, for
\* the same employee; an available key tapped after that is refused.
CheckoutKeepsTheSession ==
    [][\A uid \in Uids, text \in Texts :
         ( ValidKey(uid, text) /\ Tap(uid, text) )
         => /\ reported'.kind = "checked_out" => session' = session
            /\ ( /\ LedgerAvailable(uid, text)
                 /\ CheckedOutInThisWindow
                 /\ clock <= session.window_expires_at )
               => /\ reported'.kind = "checked_out"
                  /\ session' = session
                  /\ logs' = Append(logs,
                        [id |-> Len(logs) + 1,
                         tag_uid |-> uid,
                         text_uuid |-> text,
                         employee_text_uuid |->
                             registered_tags[session.active_employee_card_id].text_uuid,
                         checkOutTime |-> clock,
                         checkInTime |-> None])
            /\ ( /\ LedgerAvailable(uid, text)
                 /\ CheckedOutInThisWindow
                 /\ clock > session.window_expires_at )
               => /\ reported'.kind = "no_active_employee"
                  /\ logs' = logs]_vars

\* two keys checked out for one employee in one window, the second one at
\* the very end of it
TwoKeysInOneWindow ==
    /\ reported.kind = "checked_out"
    /\ Armed
    /\ Len(logs) = 2
    /\ logs[1].tag_uid # logs[2].tag_uid
    /\ logs[1].employee_text_uuid = logs[2].employee_text_uuid
    /\ logs[1].checkOutTime + CHECKOUT_WINDOW = session.window_expires_at
    /\ logs[2].checkOutTime = session.window_expires_at

\* C9: when check_out_key finds an open entry of the pair and fails, the tap
\* reports the failure, inserts and changes no entry, and leaves the session
\* as it was.
FailedCheckoutChangesNothing ==
    [][\A e \in Engines :
         /\ ( /\ pc[e] = "check_out_key_select"
              /\ pc'[e] # pc[e]
              /\ OpenEntriesOf(logs, call[e].uid, call[e].text) # {} )
            => /\ outcome'[e].kind = "already_out"
               /\ pc'[e] = "idle"
               /\ logs' = logs
               /\ state' = state
         /\ ( pc[e] = "idle" /\ pc'[e] = "check_out_key_select" )
            => /\ logs' = logs
               /\ state' = state]_vars

\* a front end was told the key is out already, its session still armed
RefusedAlreadyOut ==
    \E e \in Engines :
        /\ outcome[e].kind = "already_out"
        /\ pc[e] = "idle"
        /\ state[e] # Idle
        /\ \E uid \in Uids, cred \in Texts :
              Cardinality(OpenEntriesOf(logs, uid, cred)) = 1

\* C10: a tap of an active registered tag whose content is not the
\* credential bound to it is reported as possible tampering and, unless the
\* operator chooses to re-register, changes nothing.
TamperChangesNothing ==
    [][\A uid \in Uids, text \in Texts :
         ( /\ uid \in DOMAIN registered_tags
           /\ registered_tags[uid].active
           /\ registered_tags[uid].text_uuid # text )
         => /\ MainWindow_process_tag(MainEngine, uid, text)
               => /\ reported'.kind = "tamper"
                  /\ UNCHANGED <<store, state, uuid_next, pc, call>>
            /\ \A a \in Answers(uid, text) :
                  process_card(MainEngine, uid, text, a.choice, a.tag_type, a.name)
                  => /\ reported'.kind = "tamper"
                     /\ a.choice # 1
                        => UNCHANGED <<store, state, uuid_next, pc, call>>]_vars

\* a mismatching tag was turned away while a session was armed and a key out
RefusedTamper ==
    /\ reported = Report("tamper")
    /\ Armed
    /\ \E i \in 1..Len(logs) : logs[i].checkInTime = None

\* C11: a tap of a tag whose uid has no registration is reported as
\* unregistered and changes neither the ledger, the registrations, the label
\* records nor the session; a registration of the uid appears only by a
\* registration the operator chose (answer 1 and a name at the prompts of
\* the CLI, the Register dialog in the UI).
UnregisteredChangesNothing ==
    [][\A uid \in Uids :
         uid \notin DOMAIN registered_tags
         => /\ \A text \in Texts :
                 /\ MainWindow_process_tag(MainEngine, uid, text)
                    => /\ reported'.kind = "unregistered"
                       /\ UNCHANGED <<store, state, uuid_next, pc, call>>
                 /\ \A a \in Answers(uid, text) :
                       process_card(MainEngine, uid, text, a.choice, a.tag_type, a.name)
                       => /\ reported'.kind = "unregistered"
                          /\ UNCHANGED <<logs, state>>
                          /\ (a.choice # 1 \/ a.name = "")
                             => UNCHANGED <<store, state, uuid_next, pc, call>>
            /\ uid \in DOMAIN registered_tags'
               => \/ \E text \in Texts, tag_type \in TagTypes, name \in Labels :
                       process_card(MainEngine, uid, text, 1, tag_type, name)
                  \/ \E tag_type \in TagTypes, name \in Labels, verified \in BOOLEAN :
                       RegisterDialog_do_register(MainEngine, uid, tag_type, name, verified)]_vars

\* an unknown tag was turned away while a session was armed and a key out
RefusedUnregistered ==
    /\ reported = Report("unregistered")
    /\ 0 \notin DOMAIN registered_tags
    /\ Armed
    /\ \E i \in 1..Len(logs) : logs[i].checkInTime = None

\* C12: a tap of a registered but inactive tag is reported as inactive,
\* whatever its content, and reaches neither the employee nor the key
\* handler: the session and the ledger stay as they were; at most the active
\* flag of that tag changes, and only when the operator chose to activate.
InactiveChangesNothing ==
    [][\A uid \in Uids, text \in Texts :
         ( uid \in DOMAIN registered_tags /\ ~registered_tags[uid].active )
         => /\ MainWindow_process_tag(MainEngine, uid, text)
               => /\ reported'.kind = "inactive"
                  /\ UNCHANGED <<store, state, uuid_next, pc, call>>
            /\ \A a \in Answers(uid, text) :
                  process_card(MainEngine, uid, text, a.choice, a.tag_type, a.name)
                  => /\ reported'.kind = "inactive"
                     /\ UNCHANGED <<logs, uuid_to_encrypted_content, state, uuid_next, pc, call>>
                     /\ registered_tags' \in
                            {registered_tags, [registered_tags EXCEPT ![uid].active = TRUE]}
                     /\ a.choice # 1 => registered_tags' = registered_tags]_vars

\* the deactivated tag of a key that is out and past its cooldown, or of the
\* armed employee, was turned away
RefusedInactive ==
    /\ reported = Report("inactive")
    /\ Armed
    /\ ~registered_tags[session.active_employee_card_id].active
    /\ clock <= session.window_expires_at
    /\ \E i \in 1..Len(logs) :
          /\ logs[i].checkInTime = None
          /\ ~registered_tags[logs[i].tag_uid].active

\* C13: verify_tag_content(uid, observed) returns true exactly when a
\* registration of uid exists, is active, is bound to the credential
\* observed, and that credential has a label record; in every other case it
\* returns false.
VerifyExactly ==
    ( pc[MainEngine] = "returned"
      /\ reported.kind \in {"content_valid", "content_invalid"} )
    => ( reported.kind = "content_valid"
         <=> \E uid \in DOMAIN registered_tags :
                /\ uid = call[MainEngine].uid
                /\ registered_tags[uid].active
                /\ registered_tags[uid].text_uuid = call[MainEngine].text
                /\ \E c \in DOMAIN uuid_to_encrypted_content :
                      c = registered_tags[uid].text_uuid )

\* an active registration with matching content whose credential has no
\* label record was found invalid
DanglingCredentialInvalid ==
    /\ pc[MainEngine] = "returned"
    /\ reported.kind = "content_invalid"
    /\ call[MainEngine].uid \in DOMAIN registered_tags
    /\ registered_tags[call[MainEngine].uid].active
    /\ registered_tags[call[MainEngine].uid].text_uuid = call[MainEngine].text
    /\ call[MainEngine].text \notin DOMAIN uuid_to_encrypted_content

\* C14 (as stated): the binding of a uid becomes a new credential only in a
\* step whose verifying read returned exactly (uid, credential) and which
\* reports success; after a failed write or verifying read no uid is bound
\* to the credential that was being registered.
RegisteredOnlyAfterRoundTrip ==
    [][/\ \A uid \in Uids :
            ( /\ uid \in DOMAIN registered_tags'
              /\ \/ uid \notin DOMAIN registered_tags
                 \/ registered_tags'[uid].text_uuid # registered_tags[uid].text_uuid )
            => reported'.reg = "success"
       /\ reported'.reg = "write_verify_failed"
          => \A uid \in DOMAIN registered_tags' :
                registered_tags'[uid].text_uuid # uuid_next' - 1]_vars

\* C15 (as stated): the session changes only in a step that handles a
\* content-valid tap of an employee tag.
SessionChangedOnlyByEmployeeTaps ==
    [][state' # state
       => \E uid \in Uids, text \in Texts : ValidEmp(uid, text) /\ Tap(uid, text)]_vars

\* C15 (amended): the session changes only in a step that handles a
\* content-valid tap of an employee tag, or a content-valid tap of a key
\* that is refused with "no active employee" and leaves the session Idle;
\* no other tap, no registration, no activation and no passage of time
\* changes it.
SessionChangedOnlyByEmployeeTapsOrRefusal ==
    [][state' # state
       => \/ \E uid \in Uids, text \in Texts : ValidEmp(uid, text) /\ Tap(uid, text)
          \/ /\ reported'.kind = "no_active_employee"
             /\ session' = Idle
             /\ \E uid \in Uids, text \in Texts : ValidKey(uid, text) /\ Tap(uid, text)]_vars

\* a key tap found the session expired and cleared it, two minutes after a
\* checkout of that session
ExpiredSessionCleared ==
    /\ reported.kind = "no_active_employee"
    /\ session = Idle
    /\ \E i \in 1..Len(logs) : logs[i].checkOutTime + CHECKIN_MIN_AGE <= clock

\* C16 (as stated): every tap ends in a reported outcome and no exception
\* leaves the tap handler, also when check_in_key finds no open entry
\* because another front end closed it after the ledger was read.
NoExceptionEscapes ==
    \A e \in Engines : pc[e] # "crashed" /\ outcome[e].kind # "exception"

\* C17: no step deletes a ledger entry or changes the key uid, the
\* credential, the employee credential or the checkout time of an entry; the
\* checkin time of an entry changes only from null to a value; this whatever
\* is re-registered or deactivated meanwhile.
LedgerAppendOnly ==
    [][/\ Len(logs') >= Len(logs)
       /\ \A i \in 1..Len(logs) :
             \/ logs'[i] = logs[i]
             \/ /\ logs[i].checkInTime = None
                /\ logs'[i].checkInTime # None
                /\ logs'[i] = [logs[i] EXCEPT !.checkInTime = logs'[i].checkInTime]]_vars

\* a closed entry names a credential its key is no longer bound to, next to
\* an entry made since
EntryOutlivesItsRegistration ==
    /\ Len(logs) = 2
    /\ logs[1].checkInTime # None
    /\ registered_tags[logs[1].tag_uid].text_uuid # logs[1].text_uuid
    /\ logs[1].text_uuid = SeedTags[logs[1].tag_uid].text_uuid

\* C18: the entry a key tap inserts carries, as employee credential, the
\* credential registered_tags binds to the armed employee's uid in the state
\* the insert is made in, whatever credential that tag held when the session
\* was armed.
EmployeeResolvedAtInsert ==
    [][\A uid \in Uids, text \in Texts :
         ( /\ ValidKey(uid, text)
           /\ Len(logs') = Len(logs) + 1
           /\ Tap(uid, text) )
         => /\ session.active_employee_card_id \in DOMAIN registered_tags
            /\ registered_tags' = registered_tags
            /\ logs'[Len(logs')].tag_uid = uid
            /\ logs'[Len(logs')].text_uuid = text
            /\ logs'[Len(logs')].employee_text_uuid =
                   registered_tags'[session.active_employee_card_id].text_uuid]_vars

\* a key was checked out for the seeded employee, whose tag was given a new
\* credential in this run: the entry carries the new credential
EntryCarriesNewCredential ==
    /\ reported.kind = "checked_out"
    /\ session.active_employee_card_id = 1
    /\ registered_tags[1].text_uuid # SeedTags[1].text_uuid
    /\ logs[Len(logs)].employee_text_uuid = registered_tags[1].text_uuid
    /\ logs[Len(logs)].checkOutTime = clock

\* C19: no operation of the store changes or removes a label record there
\* is; register_or_overwrite_tag adds the record of its credential when the
\* credential has none, and with a credential that has one it returns
\* normally and leaves the stored encrypted label as it was.
LabelsWriteOnce ==
    [][/\ \A c \in DOMAIN uuid_to_encrypted_content :
             /\ c \in DOMAIN uuid_to_encrypted_content'
             /\ uuid_to_encrypted_content'[c] = uuid_to_encrypted_content[c]
       /\ \A uid \in Uids, tag_type \in TagTypes, text_uuid \in Creds,
             encrypted_content \in Ciphertexts :
             register_or_overwrite_tag_call(MainEngine, uid, tag_type, text_uuid,
                                            encrypted_content)
             => /\ pc'[MainEngine] = "returned"
                /\ DOMAIN uuid_to_encrypted_content' =
                       DOMAIN uuid_to_encrypted_content \cup {text_uuid}
                /\ text_uuid \notin DOMAIN uuid_to_encrypted_content
                   => uuid_to_encrypted_content'[text_uuid] = encrypted_content]_vars

\* register_or_overwrite_tag returned from a call with a credential that had
\* a label record and with another encrypted label: the stored one is kept
StoredLabelKept ==
    /\ pc[MainEngine] = "returned"
    /\ reported.kind = "stored"
    /\ call[MainEngine].content # {}
    /\ uuid_to_encrypted_content[call[MainEngine].text] \notin call[MainEngine].content

\* C20: no step removes a registration; a registration of uid made by the
\* operator leaves one registration per uid, gives uid the new role and the
\* new credential and changes no other uid's registration, whether uid was
\* registered before or not; if it was, its old credential is content-valid
\* for it no longer.
RegistrationReplacesInPlace ==
    [][/\ DOMAIN registered_tags \subseteq DOMAIN registered_tags'
       /\ \A uid \in Uids, tag_type \in TagTypes, name \in Labels :
            ( /\ uuid_next' # uuid_next
              /\ \/ \E text \in Texts :
                       process_card(MainEngine, uid, text, 1, tag_type, name)
                 \/ \E verified \in BOOLEAN :
                       RegisterDialog_do_register(MainEngine, uid, tag_type, name, verified) )
            => /\ DOMAIN registered_tags' = DOMAIN registered_tags \cup {uid}
               /\ registered_tags'[uid].type = tag_type
               /\ registered_tags'[uid].text_uuid = uuid_next
               /\ \A u \in DOMAIN registered_tags \ {uid} :
                     registered_tags'[u] = registered_tags[u]
               /\ uid \in DOMAIN registered_tags
                  => /\ registered_tags'[uid].text_uuid # registered_tags[uid].text_uuid
                     /\ ~verify_tag_content(registered_tags', uuid_to_encrypted_content',
                                            uid, registered_tags[uid].text_uuid)]_vars

\* the seeded key tag was registered anew as an employee tag, and a tap was
\* then reported as tampering
ReRegisteredWithNewRole ==
    /\ DOMAIN registered_tags = DOMAIN SeedTags
    /\ SeedTags[2].type = "key"
    /\ registered_tags[2].type = "emp"
    /\ registered_tags[2].text_uuid # SeedTags[2].text_uuid
    /\ registered_tags[1] = SeedTags[1]
    /\ reported = Report("tamper")

\* C21: activate applied once or twice to a registered uid yields the same
\* registration: active, with the uid, role and credential it had, and the
\* same number of registrations; applied to an unregistered uid it creates
\* no registration.  The same holds of set_tag_active(uid, True).
ActivateIdempotent ==
    [][\A uid \in Uids :
         ( \/ activate_tag_call(MainEngine, uid)
           \/ set_tag_active_call(MainEngine, uid, TRUE) )
         => /\ DOMAIN registered_tags' = DOMAIN registered_tags
            /\ activate_tag(registered_tags', uid) = registered_tags'
            /\ set_tag_active(registered_tags', uid, TRUE) = registered_tags'
            /\ uid \in DOMAIN registered_tags
               => registered_tags' = [registered_tags EXCEPT ![uid].active = TRUE]
            /\ uid \notin DOMAIN registered_tags
               => registered_tags' = registered_tags]_vars

\* activate returned from a call on a registered tag, next to another
\* registered tag that is inactive
ActivatedOne ==
    /\ pc[MainEngine] = "returned"
    /\ reported.kind = "activated"
    /\ call[MainEngine].uid \in DOMAIN registered_tags
    /\ registered_tags[call[MainEngine].uid].active
    /\ \E u \in DOMAIN registered_tags : ~registered_tags[u].active

\* C22: the passage of time changes no session; a session whose window has
\* expired stays stored as it was armed until a tap is handled; then a
\* content-valid tap of an available key finds no active employee, and a
\* content-valid tap of the same employee arms a fresh session from now.
ExpiryIsLazy ==
    [][/\ clock' # clock => state' = state
       /\ ( Armed /\ clock > session.window_expires_at )
          => /\ state' # state => \E uid \in Uids, text \in Texts : Tap(uid, text)
             /\ \A uid \in Uids, text \in Texts :
                  ( /\ ValidKey(uid, text)
                    /\ LedgerAvailable(uid, text)
                    /\ Tap(uid, text) )
                  => /\ reported'.kind = "no_active_employee"
                     /\ session' = Idle
                     /\ logs' = logs
             /\ \A uid \in Uids, text \in Texts :
                  ( /\ uid = session.active_employee_card_id
                    /\ ValidEmp(uid, text)
                    /\ Tap(uid, text) )
                  => /\ reported'.kind = "employee_armed"
                     /\ session' = SessionState(uid, clock + CHECKOUT_WINDOW)]_vars

\* a session armed for the seeded employee is still stored two minutes after
\* its window ended
ExpiredSessionStillStored ==
    /\ Armed
    /\ session.active_employee_card_id = 1
    /\ clock >= session.window_expires_at + CHECKIN_MIN_AGE - CHECKOUT_WINDOW
    /\ reported.kind = "employee_armed"

\* the label record of a credential holds a blob this key decrypts to text
Readable(cred) ==
    /\ cred \in DOMAIN uuid_to_encrypted_content
    /\ uuid_to_encrypted_content[cred].type = "bytes"
    /\ Crypto_decrypt_name(TheKey, uuid_to_encrypted_content[cred].v).exc = "none"

\* the label that blob seals
LabelOf(cred) == Crypto_decrypt_name(TheKey, uuid_to_encrypted_content[cred].v).value

\* C23: a listing of the ledger or of the tags returns, and returns a row for
\* every row its query selects, whatever the label records hold: the key
\* label and the tag label are the decrypted label where the blob decrypts
\* (to a non-empty label) and "(unknown)" where it is missing, malformed,
\* corrupt or sealed under another key.
ListingsSurviveBadLabels ==
    /\ pc[MainEngine] = "listed_logs"
       => /\ reported.exc = "none"
          /\ LET rows == SelectedLogs(logs, call[MainEngine].start, call[MainEngine].end)
                 out == reported.value
             IN
             /\ Len(out) = IF Cardinality(rows) < call[MainEngine].limit
                           THEN Cardinality(rows) ELSE call[MainEngine].limit
             /\ {out[a].id : a \in DOMAIN out} \subseteq {logs[i].id : i \in rows}
             /\ \A a, b \in DOMAIN out : a # b => out[a].id # out[b].id
             /\ \A a \in DOMAIN out :
                   out[a].key_label =
                       IF Readable(out[a].key_uuid) /\ LabelOf(out[a].key_uuid) # <<>>
                       THEN LabelOf(out[a].key_uuid) ELSE Unknown
    /\ pc[MainEngine] = "listed_tags"
       => /\ reported.exc = "none"
          /\ LET out == reported.value IN
             /\ {out[a].uid : a \in DOMAIN out} = DOMAIN registered_tags
             /\ Len(out) = Cardinality(DOMAIN registered_tags)
             /\ \A a \in DOMAIN out :
                   out[a].label =
                       IF Readable(out[a].uuid) /\ LabelOf(out[a].uuid) # <<>>
                       THEN LabelOf(out[a].uuid) ELSE Unknown

\* the ledger was listed in full although the label blob of its key is
\* sealed under another key: the rows carry "(unknown)"
ListedWithForeignBlob ==
    /\ pc[MainEngine] = "listed_logs"
    /\ reported.exc = "none"
    /\ Len(reported.value) = 2
    /\ Len(logs) = 2
    /\ \A a \in DOMAIN reported.value :
          /\ reported.value[a].key_label = Unknown
          /\ reported.value[a].key_uuid \in DOMAIN uuid_to_encrypted_content
          /\ Crypto_decrypt_name(TheKey,
                 uuid_to_encrypted_content[reported.value[a].key_uuid].v).exc = "InvalidTag"

\* a duration in ticks, rounded up to whole seconds
CeilSeconds(d) == ((d + TicksPerSecond - 1) \div TicksPerSecond) * TicksPerSecond

\* C24 (as stated): the remaining cooldown reported for a check-in refused
\* at now, t0 <= now < t0 + CHECKIN_MIN_AGE, is ceil(t0 + CHECKIN_MIN_AGE -
\* now) in whole seconds, in the engine and in the UI handler.
CooldownReportsCeil ==
    reported.kind = "checkin_wait"
    => /\ LedgerOpen(2, 2)
       /\ reported.wait = CeilSeconds(CheckedOutAt(2, 2) + CHECKIN_MIN_AGE - clock)

\* C25: under one key, decrypt_name returns the label for every blob
\* encrypt_name returned for it, whatever the nonce, for every label of valid
\* text (encrypt_name raises only for a label that holds a lone surrogate);
\* two encryptions of a label with different nonces differ.
RoundTrip ==
    /\ pc[MainEngine] = "decrypted"
       => reported = Returned(call[MainEngine].full_name)
    /\ pc[MainEngine] = "raised"
       => \E i \in DOMAIN call[MainEngine].full_name :
             IsSurrogate(call[MainEngine].full_name[i])
    /\ pc[MainEngine] = "encrypted"
       => /\ \A i \in DOMAIN call[MainEngine].full_name :
                ~IsSurrogate(call[MainEngine].full_name[i])
          /\ \A b \in call[MainEngine].blobs :
                /\ Len(b) = NonceLen + 1
                /\ Take(b, NonceLen) \in Nonces

\* a label of two non-ASCII characters was encrypted twice, to two blobs, and
\* one of them decrypted to it
TwoBlobsOneLabel ==
    /\ pc[MainEngine] = "decrypted"
    /\ Cardinality(call[MainEngine].blobs) = 2
    /\ call[MainEngine].full_name = <<8364, 128512>>
    /\ reported.value = <<8364, 128512>>

\* C26: every ledger entry has a checkout time, so what get_key_log_times
\* returns for any pair is either "in the office" or "checked out", never
\* (null, non-null), and no tap ends in the "unexpected state" branch of
\* the key handler.
NoUnexpectedState ==
    /\ \A i \in 1..Len(logs) : logs[i].checkOutTime # None
    /\ \A uid \in Uids, text \in Texts :
          \A times \in get_key_log_times(logs, uid, text) :
              /\ KeyAvailable(times[1], times[2]) \/ KeyCheckedOut(times[1], times[2])
              /\ ~(times[1] = None /\ times[2] # None)
    /\ \A e \in Engines : outcome[e].kind # "inconsistent"

\* the key handler read the ledger of a pair as "in the office" after a
\* check-in, and checked the pair out again
CheckedOutAgainAfterCheckIn ==
    /\ reported.kind = "checked_out"
    /\ Len(logs) = 2
    /\ logs[1].tag_uid = logs[2].tag_uid
    /\ logs[1].text_uuid = logs[2].text_uuid
    /\ logs[1].checkInTime # None
    /\ logs[2].checkInTime = None
    /\ logs[2].checkOutTime = clock

\* C27: a turn of the loop of register_tag leaves the loop, reporting
\* success, exactly when nothing raised and the read returned the uid and
\* the new credential; any other turn stays in the loop, reports no success
\* and changes nothing else, so a reader that never verifies keeps the call
\* in the loop for ever; when the reader eventually verifies, the call
\* eventually returns with success.
RegisterLoopExitsOnMatch ==
    /\ [][pc[MainEngine] = "register_tag_loop"
          => /\ \A raises \in BOOLEAN, read_uid \in Uids, read_text \in Texts :
                   register_tag_loop(MainEngine, raises, read_uid, read_text)
                   => IF /\ ~raises
                         /\ read_uid = call[MainEngine].uid
                         /\ read_text = call[MainEngine].text
                         /\ read_text = registered_tags[read_uid].text_uuid
                      THEN /\ pc'[MainEngine] = "idle"
                           /\ reported'.reg = "success"
                      ELSE /\ pc'[MainEngine] = "register_tag_loop"
                           /\ reported'.reg = "write_verify_failed"
                           /\ UNCHANGED <<store, state, call>>
             /\ pc'[MainEngine] # "register_tag_loop"
                => /\ pc'[MainEngine] = "idle"
                   /\ reported'.reg = "success"]_vars
    /\ (pc[MainEngine] = "register_tag_loop")
          ~> (pc[MainEngine] = "idle" /\ reported.reg = "success")

\* the loop is retrying after a turn that failed
RetryingAfterFailure ==
    /\ pc[MainEngine] = "register_tag_loop"
    /\ reported.reg = "write_verify_failed"
    /\ registered_tags[call[MainEngine].uid].text_uuid = call[MainEngine].text

\* C28: with one engine handling one tap at a time, a pair whose ledger
\* state reads as available has no open entry; no tap is answered "already
\* checked out"; and the engine answers a content-valid tap of an available
\* key inside an armed, unexpired window with a checkout.
AvailableMeansNoOpenEntry ==
    [][/\ logs' # logs
          => \A uid \in Uids, cred \in Texts :
                LedgerAvailable(uid, cred)' => OpenEntriesOf(logs', uid, cred) = {}
       /\ reported'.kind # "already_out"
       /\ \A uid \in Uids, text \in Texts :
             ( /\ mode = "cli"
               /\ ValidKey(uid, text)
               /\ LedgerAvailable(uid, text)
               /\ Armed
               /\ clock <= session.window_expires_at
               /\ process_card(MainEngine, uid, text, NoAnswer.choice,
                               NoAnswer.tag_type, NoAnswer.name) )
             => /\ reported'.kind = "checked_out"
                /\ Len(logs') = Len(logs) + 1
                /\ OpenEntriesOf(logs', uid, text) = {Len(logs')}]_vars

\* the engine checked a key out at the last instant of the window, the
\* ledger holding a closed entry already
CheckedOutAtWindowEnd ==
    /\ mode = "cli"
    /\ reported.kind = "checked_out"
    /\ Armed
    /\ clock = session.window_expires_at
    /\ Len(logs) = 2
    /\ logs[1].checkInTime # None
    /\ logs[2].checkOutTime = clock

\* the open entries of a physical key, whatever credential they name
OpenEntriesOfKey(l, uid) ==
    {i \in 1..Len(l) : l[i].tag_uid = uid /\ l[i].checkInTime = None}

\* C29 (as stated): with one engine, a physical key_uid never has two open
\* ledger entries, whatever credentials were bound to it meanwhile.
AtMostOneOpenEntryPerKey ==
    \A uid \in Uids : Cardinality(OpenEntriesOfKey(logs, uid)) <= 1

\* C30 (as stated): the entry a key tap inserts is attributed to a tag that
\* is, in the state the insert is made in, registered with role Employee and
\* active.
AttributedToActiveEmployee ==
    [][Len(logs') = Len(logs) + 1
       => \E u \in DOMAIN registered_tags :
             /\ registered_tags[u].text_uuid = logs'[Len(logs')].employee_text_uuid
             /\ registered_tags[u].type = "emp"
             /\ registered_tags[u].active]_vars


\* C31: every closed ledger entry has, as stored, checkInTime at or after
\* checkOutTime + CHECKIN_MIN_AGE.
ClosedAfterMinAgeAsStored ==
    \A i \in 1..Len(logs) :
        logs[i].checkInTime # None
            => logs[i].checkInTime >= logs[i].checkOutTime + CHECKIN_MIN_AGE

\* C32: every credential bound in a registration has a label record; every
\* ledger entry names a key credential and an employee credential, and both
\* have a label record.
ReferentialIntegrity ==
    /\ \A u \in DOMAIN registered_tags :
           registered_tags[u].text_uuid \in DOMAIN uuid_to_encrypted_content
    /\ \A i \in 1..Len(logs) :
           /\ logs[i].text_uuid \in DOMAIN uuid_to_encrypted_content
           /\ logs[i].employee_text_uuid # None
           /\ logs[i].employee_text_uuid \in DOMAIN uuid_to_encrypted_content

\* a ledger entry whose employee was registered anew since: its employee
\* credential is bound to no tag any more
EntryOfARetiredEmployeeCredential ==
    \E i \in 1..Len(logs) :
        \A u \in DOMAIN registered_tags :
            registered_tags[u].text_uuid # logs[i].employee_text_uuid

\* C33: in every state the session has a uid exactly when it has an expiry,
\* and an armed session names a registered tag; a step that leaves the
\* session armed and changed is the handling of a tap of a tag that is, in
\* the state of the tap, an active, content-valid employee tag, and the
\* session it leaves is (that uid, time of the tap + CHECKOUT_WINDOW).
SessionWellFormed ==
    /\ [](\A e \in Engines :
            /\ (state[e].active_employee_card_id = None)
                   <=> (state[e].window_expires_at = None)
            /\ state[e].active_employee_card_id # None
                   => state[e].active_employee_card_id \in DOMAIN registered_tags)
    /\ [][(state' # state /\ session'.active_employee_card_id # None)
            => \E uid \in Uids, text \in Texts :
                  /\ ValidEmp(uid, text)
                  /\ session' = SessionState(uid, clock + CHECKOUT_WINDOW)
                  /\ Tap(uid, text)]_vars

\* the session is armed and not expired, and the tag it names has since been
\* registered anew as a key: it was an employee tag when it armed the session
ArmedByATagThatIsNowAKey ==
    /\ Armed
    /\ clock <= session.window_expires_at
    /\ registered_tags[session.active_employee_card_id].type = "key"

\* C34: a tap of a content-valid employee tag leaves the ledger as it is; a
\* tap of a content-valid key tag leaves the session as it is or Idle; a tap
\* changes a registration or a label record only when the operator chose to
\* register or to activate.
RolesSeparated ==
    [][/\ logs' # logs
           => \A uid \in Uids, text \in Texts :
                  ValidEmp(uid, text) => ~Tap(uid, text)
       /\ (session' # session /\ session' # Idle)
           => \A uid \in Uids, text \in Texts :
                  ValidKey(uid, text) => ~Tap(uid, text)
       /\ (registered_tags' # registered_tags
              \/ uuid_to_encrypted_content' # uuid_to_encrypted_content)
           => \A uid \in Uids, text \in Texts :
                  \A a \in Answers(uid, text) :
                      TapWith(uid, text, a) => a.choice = 1]_vars

\* the employee whose key is out tapped their tag at a later instant: the
\* session is armed from this instant and the ledger still has the one entry
EmployeeTappedWhileKeyOut ==
    /\ reported.kind = "employee_armed"
    /\ session = SessionState(1, clock + CHECKOUT_WINDOW)
    /\ Len(logs) = 1
    /\ logs[1].checkInTime = None
    /\ logs[1].employee_text_uuid = registered_tags[1].text_uuid
    /\ logs[1].checkOutTime < clock

\* C35: a call of register_or_overwrite_tag for a registered uid leaves the
\* active flag and registered_at of its row as they were, so that
\* get_tag_info still finds an inactive tag inactive; for a uid that was not
\* registered it creates an active row.
UpsertKeepsActiveAndRegisteredAt ==
    [][(pc[MainEngine] = "idle" /\ outcome'[MainEngine].kind = "stored")
        => LET uid == call'[MainEngine].uid IN
           /\ uid \in DOMAIN registered_tags'
           /\ registered_tags'[uid].text_uuid = call'[MainEngine].text
           /\ IF uid \in DOMAIN registered_tags
              THEN /\ registered_tags'[uid].active = registered_tags[uid].active
                   /\ registered_tags'[uid].registered_at
                          = registered_tags[uid].registered_at
                   /\ get_tag_info(registered_tags', uid).active
                          = get_tag_info(registered_tags, uid).active
              ELSE /\ registered_tags'[uid].active
                   /\ get_tag_info(registered_tags', uid).active]_vars

\* an inactive tag was registered anew and is inactive still, and its row
\* still has the registered_at of a minute before
InactiveTagRegisteredAnew ==
    /\ outcome[MainEngine].kind = "stored"
    /\ call[MainEngine].uid = 1
    /\ registered_tags[1].text_uuid = call[MainEngine].text
    /\ ~registered_tags[1].active
    /\ registered_tags[1].registered_at < clock

\* what a key tap decides and leaves behind: the results of a handler without
\* the wording of the report
Decisions(results) ==
    {[logs |-> r.logs, state |-> r.state, kind |-> r.outcome.kind] : r \in results}

\* C36: on every content-valid key tap, whatever the ledger and the session,
\* MainWindow._process_tag and Engine.process_key_tag take the same decision
\* and end in the same ledger and the same session.
HandlersAgreeOnKeyTaps ==
    \A uid \in Uids, text \in Texts :
        ValidKey(uid, text)
            => Decisions(ui_process_key_tag(logs, registered_tags, session,
                                            uid, text, clock, clock))
                 = Decisions(process_key_tag(logs, registered_tags, session,
                                             uid, text, clock, clock))

=============================================================================
